---- MODULE Spec2Model ----
(***************************************************************************)
(* BQ40Z80 fuel-gauge driver (app/Src/BQ40Z80): the SMBus transport        *)
(* primitives, the sentinel/fallback chain of the typed reads, the         *)
(* ManufacturerAccess passthrough, init()'s recovery sequence and the      *)
(* composite snapshot read.                                                *)
(*                                                                         *)
(* The driver is a blocking, single-threaded call chain over two HAL       *)
(* primitives.  A call is modelled as a function of a "world"              *)
(*     [script : the transport's answers still to come,                    *)
(*      log    : the bus trace so far]                                     *)
(* Every HAL call consumes the next answer of the script and appends one   *)
(* event to the log; every driver function is an operator that threads the *)
(* world through the HAL calls in the order of the source.                 *)
(***************************************************************************)
EXTENDS Integers, Sequences, FiniteSets, TLC

VARIABLES
    config_,        \* Driver::config_  [deviceAddress, commandDelayMs]
    writeAddress_,  \* Driver::writeAddress_
    readAddress_,   \* Driver::readAddress_
    op,             \* the driver call that returned last ("none" after construction)
    what,           \* its Reading argument (register code), 0 when it has none
    script,         \* the transport answers that were supplied to that call
    status,         \* the HAL_StatusTypeDef it returned
    log,            \* the bus trace of that call
    value,          \* the caller's uint16_t output variable
    value0,         \* ... and what it held when the call was made
    bdata,          \* the caller's BatteryData output variable
    bdata0,         \* ... and what it held when the call was made
    fstat,          \* composite read: the statuses of the field reads it made
    arg,            \* the uint16_t argument of a write / the command of a MAC call
    bytes,          \* the byte vector handed to writeBlock
    blk,            \* the caller's byte-vector / string output variable
    blk0,           \* ... and what it held when the call was made
    stat,           \* the caller's Status output variable
    stat0,          \* ... and what it held when the call was made
    celsius,        \* the float temperatureToC returned last
    task,           \* per task: where it stands inside its readWord call
    pointer,        \* the device register the last command byte addressed
    telemetry,      \* the caller's BatteryTelemetryData output variable
    telemetry0      \* ... and what it held when the call was made

vars == <<config_, writeAddress_, readAddress_, op, what, script, status, log,
          value, value0, bdata, bdata0, fstat, arg, bytes, blk, blk0, stat, stat0,
          celsius, task, pointer, telemetry, telemetry0>>

----------------------------------------------------------------------------
(* HAL_StatusTypeDef *)
HAL_OK == 0
HAL_ERROR == 1
HAL_BUSY == 2
HAL_TIMEOUT == 3

HAL_StatusTypeDef == {HAL_OK, HAL_ERROR, HAL_BUSY, HAL_TIMEOUT}

(* enum class Reading : uint8_t *)
Voltage == 9
Current == 10
Temperature == 8
StateOfCharge == 13
RemainingCapacity == 15
FullChargeCapacity == 16
CycleCount == 23
BatteryStatus == 22
AllBatteryData == 255
ManufacturerName == 32
DeviceName == 33

(* enum class Setting : uint8_t *)
ChargingCurrent == 20
ChargingVoltage == 21

(* the value every standard register returns when the device is frozen *)
Sentinel == 5836            \* 0x16CC

(* uint8_t / uint16_t arithmetic *)
Lo(v) == v % 256
Hi(v) == (v \div 256) % 256
Word(b0, b1) == (b0 + 256 * b1) % 65536
ToInt16(v) == IF v >= 32768 THEN v - 65536 ELSE v

----------------------------------------------------------------------------
(* Construction *)

defaultConfig == [deviceAddress |-> 11, commandDelayMs |-> 1]

WriteAddressOf(cfg) == (cfg.deviceAddress * 2) % 256

(* mutant: the read address lacks the read bit *)
ReadAddressOf_noReadBit(cfg) == (cfg.deviceAddress * 2) % 256

ReadAddressOf(cfg) == ((cfg.deviceAddress * 2) % 256) + 1

----------------------------------------------------------------------------
(* The HAL: blocking transmit / receive / delay.                           *)

(* one event of the bus trace; call = <<driver primitive, its command>>    *)
Ev(kind, addr, frame, size, ms, st, call) ==
    [kind |-> kind, addr |-> addr, frame |-> frame, size |-> size,
     ms |-> ms, st |-> st, call |-> call]

NoCall == <<"", 0>>

(* the answer to a HAL call once the script has run out: OK, all zeros *)
DefaultAnswer == [st |-> HAL_OK, data |-> <<>>]

NextAnswer(w) == IF w.script = <<>> THEN DefaultAnswer ELSE Head(w.script)
RestScript(w) == IF w.script = <<>> THEN <<>> ELSE Tail(w.script)

HAL_I2C_Master_Transmit(w, addr, frame, call) ==
    LET a == NextAnswer(w)
    IN  [w  |-> [script |-> RestScript(w),
                 log    |-> Append(w.log, Ev("tx", addr, frame, Len(frame), 0, a.st, call))],
         st |-> a.st]

(* on HAL_OK exactly `size` bytes are delivered (a short answer is filled  *)
(* up with zero bytes); on failure the buffer keeps its contents buf0      *)
HAL_I2C_Master_Receive(w, addr, size, buf0, call) ==
    LET a == NextAnswer(w)
    IN  [w   |-> [script |-> RestScript(w),
                  log    |-> Append(w.log, Ev("rx", addr, <<>>, size, 0, a.st, call))],
         st  |-> a.st,
         buf |-> IF a.st = HAL_OK
                 THEN [i \in 1..size |-> IF i <= Len(a.data) THEN a.data[i] ELSE 0]
                 ELSE buf0]

HAL_Delay_MS(w, ms) ==
    [script |-> w.script,
     log    |-> Append(w.log, Ev("HAL_Delay_MS", 0, <<>>, 0, ms, HAL_OK, NoCall))]

vTaskDelay(w, ticks) ==
    [script |-> w.script,
     log    |-> Append(w.log, Ev("vTaskDelay", 0, <<>>, 0, ticks, HAL_OK, NoCall))]

(* a call whose result is stored in a local and then used: the call is     *)
(* made once, F is the code that follows it                                *)
Bind(e, F(_)) == CHOOSE y \in {F(x) : x \in {e}} : TRUE

----------------------------------------------------------------------------
(* Transport primitives (bq40z80_lowlevel.cpp)                             *)

readWord(w, cmd, data) ==
    LET c == <<"readWord", cmd>>
    IN  Bind(HAL_I2C_Master_Transmit(w, writeAddress_, <<cmd>>, c), LAMBDA t :
            IF t.st # HAL_OK THEN [w |-> t.w, st |-> t.st, data |-> data]
            ELSE Bind(HAL_I2C_Master_Receive(HAL_Delay_MS(t.w, 10), readAddress_, 2, <<0, 0>>, c),
                      LAMBDA r :
                IF r.st # HAL_OK THEN [w |-> r.w, st |-> r.st, data |-> data]
                ELSE [w |-> r.w, st |-> HAL_OK, data |-> Word(r.buf[1], r.buf[2])]))

(* mutant: the data bytes are sent high byte first *)
writeWord_bigEndian(w, cmd, data) ==
    LET c == <<"writeWord", cmd>>
    IN  Bind(HAL_I2C_Master_Transmit(w, writeAddress_, <<cmd, Hi(data), Lo(data)>>, c), LAMBDA t :
            IF t.st # HAL_OK THEN [w |-> t.w, st |-> t.st]
            ELSE [w |-> t.w, st |-> HAL_OK])

writeWord(w, cmd, data) ==
    LET c == <<"writeWord", cmd>>
    IN  Bind(HAL_I2C_Master_Transmit(w, writeAddress_, <<cmd, Lo(data), Hi(data)>>, c), LAMBDA t :
            IF t.st # HAL_OK THEN [w |-> t.w, st |-> t.st]
            ELSE [w |-> t.w, st |-> HAL_OK])

SMBUS_MAX_BLOCK_SIZE == 32

Zeros(n) == [i \in 1..n |-> 0]

(* mutant: the length prefix is clamped to 32 instead of being rejected *)
readBlock_clamped(w, cmd, data) ==
    LET c == <<"readBlock", cmd>>
    IN  Bind(HAL_I2C_Master_Transmit(w, writeAddress_, <<cmd>>, c), LAMBDA t :
            IF t.st # HAL_OK THEN [w |-> t.w, st |-> t.st, data |-> data]
            ELSE Bind(HAL_I2C_Master_Receive(HAL_Delay_MS(t.w, 10), readAddress_, 33, Zeros(33), c),
                      LAMBDA r :
                LET length == IF r.buf[1] > SMBUS_MAX_BLOCK_SIZE
                              THEN SMBUS_MAX_BLOCK_SIZE ELSE r.buf[1]
                IN  IF r.st # HAL_OK THEN [w |-> r.w, st |-> r.st, data |-> data]
                    ELSE [w |-> r.w, st |-> HAL_OK,
                          data |-> [i \in 1..length |-> r.buf[i + 1]]]))

readBlock(w, cmd, data) ==
    LET c == <<"readBlock", cmd>>
    IN  Bind(HAL_I2C_Master_Transmit(w, writeAddress_, <<cmd>>, c), LAMBDA t :
            IF t.st # HAL_OK THEN [w |-> t.w, st |-> t.st, data |-> data]
            ELSE Bind(HAL_I2C_Master_Receive(HAL_Delay_MS(t.w, 10), readAddress_, 33, Zeros(33), c),
                      LAMBDA r :
                LET length == r.buf[1]
                IN  IF r.st # HAL_OK THEN [w |-> r.w, st |-> r.st, data |-> data]
                    ELSE IF length > SMBUS_MAX_BLOCK_SIZE
                         THEN [w |-> r.w, st |-> HAL_ERROR, data |-> data]
                    ELSE [w |-> r.w, st |-> HAL_OK,
                          data |-> [i \in 1..length |-> r.buf[i + 1]]]))

(* mutant: the size of the data is checked after the transmission *)
writeBlock_lateCheck(w, cmd, data) ==
    LET c == <<"writeBlock", cmd>>
    IN  Bind(HAL_I2C_Master_Transmit(w, writeAddress_, <<cmd, Len(data) % 256>> \o data, c),
             LAMBDA t :
            IF Len(data) > SMBUS_MAX_BLOCK_SIZE THEN [w |-> t.w, st |-> HAL_ERROR]
            ELSE IF t.st # HAL_OK THEN [w |-> t.w, st |-> t.st]
            ELSE [w |-> t.w, st |-> HAL_OK])

writeBlock(w, cmd, data) ==
    LET c == <<"writeBlock", cmd>>
    IN  IF Len(data) > SMBUS_MAX_BLOCK_SIZE THEN [w |-> w, st |-> HAL_ERROR]
        ELSE Bind(HAL_I2C_Master_Transmit(w, writeAddress_, <<cmd, Len(data)>> \o data, c),
                  LAMBDA t :
                IF t.st # HAL_OK THEN [w |-> t.w, st |-> t.st]
                ELSE [w |-> t.w, st |-> HAL_OK])

(* mutant: the inter-command delay is skipped *)
applyCommandDelay_none(w) == w

applyCommandDelay(w) == vTaskDelay(w, config_.commandDelayMs)

----------------------------------------------------------------------------
(* ManufacturerAccess passthrough (register 0x00) and                      *)
(* ManufacturerBlockAccess (register 0x44)                                 *)

manufacturerCommand(w, command) ==
    LET c == <<"manufacturerCommand", command>>
    IN  Bind(HAL_I2C_Master_Transmit(w, writeAddress_, <<0, 0, Lo(command)>>, c), LAMBDA t :
            [w |-> t.w, st |-> t.st])

(* mutant: the command is sent high byte first *)
manufacturerBlockWrite_bigEndian(w, mac_command) ==
    writeBlock(w, 68, <<Hi(mac_command), Lo(mac_command)>>)

manufacturerBlockWrite(w, mac_command) ==
    writeBlock(w, 68, <<Lo(mac_command), Hi(mac_command)>>)

manufacturerBlockRead(w, data) ==
    Bind(readBlock(w, 68, data), LAMBDA r :
        IF r.st = HAL_OK /\ Len(r.data) >= 4 THEN [w |-> r.w, st |-> HAL_OK, data |-> r.data]
        ELSE IF r.st = HAL_OK THEN [w |-> r.w, st |-> HAL_ERROR, data |-> r.data]
        ELSE [w |-> r.w, st |-> r.st, data |-> r.data])

(* mutant: the result bytes are combined high byte first *)
manufacturerBlockAccessRead_bigEndian(w, command, data) ==
    Bind(manufacturerBlockWrite(w, command), LAMBDA bw :
        IF bw.st # HAL_OK THEN [w |-> bw.w, st |-> bw.st, data |-> data]
        ELSE Bind(manufacturerBlockRead(HAL_Delay_MS(bw.w, 100), <<>>), LAMBDA br :
            LET response == br.data
            IN  IF br.st = HAL_OK /\ Len(response) >= 4
                THEN IF Word(response[1], response[2]) = command
                     THEN [w |-> br.w, st |-> HAL_OK, data |-> Word(response[4], response[3])]
                     ELSE [w |-> br.w, st |-> HAL_ERROR, data |-> data]
                ELSE [w |-> br.w, st |-> HAL_ERROR, data |-> data]))

(* mutant: the echoed command is not verified *)
manufacturerBlockAccessRead_noEcho(w, command, data) ==
    Bind(manufacturerBlockWrite(w, command), LAMBDA bw :
        IF bw.st # HAL_OK THEN [w |-> bw.w, st |-> bw.st, data |-> data]
        ELSE Bind(manufacturerBlockRead(HAL_Delay_MS(bw.w, 100), <<>>), LAMBDA br :
            LET response == br.data
            IN  IF br.st = HAL_OK /\ Len(response) >= 4
                THEN IF Word(response[1], response[2]) = command
                     THEN [w |-> br.w, st |-> HAL_OK, data |-> Word(response[3], response[4])]
                     ELSE [w |-> br.w, st |-> HAL_ERROR, data |-> Word(response[3], response[4])]
                ELSE [w |-> br.w, st |-> HAL_ERROR, data |-> data]))

(* mutant: the block read follows the block write without the 100 ms wait *)
manufacturerBlockAccessRead_noWait(w, command, data) ==
    Bind(manufacturerBlockWrite(w, command), LAMBDA bw :
        IF bw.st # HAL_OK THEN [w |-> bw.w, st |-> bw.st, data |-> data]
        ELSE Bind(manufacturerBlockRead(bw.w, <<>>), LAMBDA br :
            LET response == br.data
            IN  IF br.st = HAL_OK /\ Len(response) >= 4
                THEN IF Word(response[1], response[2]) = command
                     THEN [w |-> br.w, st |-> HAL_OK, data |-> Word(response[3], response[4])]
                     ELSE [w |-> br.w, st |-> HAL_ERROR, data |-> data]
                ELSE [w |-> br.w, st |-> HAL_ERROR, data |-> data]))

(* mutant: the response length is not checked; missing bytes read as zero *)
manufacturerBlockAccessRead_lengthUnchecked(w, command, data) ==
    Bind(manufacturerBlockWrite(w, command), LAMBDA bw :
        IF bw.st # HAL_OK THEN [w |-> bw.w, st |-> bw.st, data |-> data]
        ELSE Bind(readBlock(HAL_Delay_MS(bw.w, 100), 68, <<>>), LAMBDA br :
            LET response == br.data \o <<0, 0, 0, 0>>
            IN  IF br.st = HAL_OK
                THEN IF Word(response[1], response[2]) = command
                     THEN [w |-> br.w, st |-> HAL_OK, data |-> Word(response[3], response[4])]
                     ELSE [w |-> br.w, st |-> HAL_ERROR, data |-> data]
                ELSE [w |-> br.w, st |-> HAL_ERROR, data |-> data]))

(* Driver::manufacturerBlockAccessRead *)
manufacturerBlockAccessRead(w, command, data) ==
    Bind(manufacturerBlockWrite(w, command), LAMBDA bw :
        IF bw.st # HAL_OK THEN [w |-> bw.w, st |-> bw.st, data |-> data]
        ELSE Bind(manufacturerBlockRead(HAL_Delay_MS(bw.w, 100), <<>>), LAMBDA br :
            LET response == br.data
            IN  IF br.st = HAL_OK /\ Len(response) >= 4
                THEN IF Word(response[1], response[2]) = command
                     THEN [w |-> br.w, st |-> HAL_OK, data |-> Word(response[3], response[4])]
                     ELSE [w |-> br.w, st |-> HAL_ERROR, data |-> data]
                ELSE [w |-> br.w, st |-> HAL_ERROR, data |-> data]))

----------------------------------------------------------------------------
(* Typed reads (bq40z80.cpp)                                               *)

(* mutant: a transport failure of the direct read is returned at once *)
read_u16_failFast(w, reading, v) ==
    Bind(readWord(w, reading, v), LAMBDA r :
        IF r.st = HAL_OK
        THEN IF r.data = Sentinel
             THEN manufacturerBlockAccessRead(r.w, reading, r.data)
             ELSE [w |-> r.w, st |-> HAL_OK, data |-> r.data]
        ELSE [w |-> r.w, st |-> r.st, data |-> r.data])

(* mutant: a failed fallback is attempted a second time *)
read_u16_retry(w, reading, v) ==
    Bind(readWord(w, reading, v), LAMBDA r :
        IF r.st = HAL_OK /\ r.data # Sentinel
        THEN [w |-> r.w, st |-> HAL_OK, data |-> r.data]
        ELSE Bind(manufacturerBlockAccessRead(r.w, reading, r.data), LAMBDA f :
                 IF f.st = HAL_OK THEN f
                 ELSE manufacturerBlockAccessRead(f.w, reading, f.data)))

(* mutant: a direct read that succeeds is returned without the sentinel test *)
read_u16_trustDirect(w, reading, v) ==
    Bind(readWord(w, reading, v), LAMBDA r :
        IF r.st = HAL_OK
        THEN [w |-> r.w, st |-> HAL_OK, data |-> r.data]
        ELSE manufacturerBlockAccessRead(r.w, reading, r.data))

(* Driver::read(Reading, uint16_t&) *)
read_u16(w, reading, v) ==
    Bind(readWord(w, reading, v), LAMBDA r :
        IF r.st = HAL_OK
        THEN IF r.data = Sentinel
             THEN manufacturerBlockAccessRead(r.w, reading, r.data)
             ELSE [w |-> r.w, st |-> HAL_OK, data |-> r.data]
        ELSE manufacturerBlockAccessRead(r.w, reading, r.data))

(* mutant: the output is written from the raw value also when the read failed *)
read_i16_clobber(w, reading, v) ==
    Bind(read_u16(w, reading, 0), LAMBDA r :
        [w |-> r.w, st |-> r.st, data |-> ToInt16(r.data)])

(* Driver::read(Reading, int16_t&) *)
read_i16(w, reading, v) ==
    Bind(read_u16(w, reading, 0), LAMBDA r :
        [w |-> r.w, st |-> r.st, data |-> IF r.st = HAL_OK THEN ToInt16(r.data) ELSE v])

(* Driver::read(Reading, uint8_t&) *)
read_u8(w, reading, v) ==
    Bind(read_u16(w, reading, 0), LAMBDA r :
        [w |-> r.w, st |-> r.st, data |-> IF r.st = HAL_OK THEN r.data % 256 ELSE v])

Bit(raw, mask) == (raw \div mask) % 2 = 1

(* mutant: the over-temperature alarm is taken from bit 0x2000 *)
DecodeStatus_bit13(rawStatus) ==
    [overChargedAlarm        |-> Bit(rawStatus, 32768),
     terminateChargeAlarm    |-> Bit(rawStatus, 16384),
     overTempAlarm           |-> Bit(rawStatus, 8192),
     terminateDischargeAlarm |-> Bit(rawStatus, 2048),
     remainingCapacityAlarm  |-> Bit(rawStatus, 512),
     remainingTimeAlarm      |-> Bit(rawStatus, 256),
     initialized             |-> Bit(rawStatus, 128),
     discharging             |-> Bit(rawStatus, 64),
     fullyCharged            |-> Bit(rawStatus, 32),
     fullyDischarged         |-> Bit(rawStatus, 16),
     errorCode               |-> rawStatus % 16]

DecodeStatus(rawStatus) ==
    [overChargedAlarm        |-> Bit(rawStatus, 32768),
     terminateChargeAlarm    |-> Bit(rawStatus, 16384),
     overTempAlarm           |-> Bit(rawStatus, 4096),
     terminateDischargeAlarm |-> Bit(rawStatus, 2048),
     remainingCapacityAlarm  |-> Bit(rawStatus, 512),
     remainingTimeAlarm      |-> Bit(rawStatus, 256),
     initialized             |-> Bit(rawStatus, 128),
     discharging             |-> Bit(rawStatus, 64),
     fullyCharged            |-> Bit(rawStatus, 32),
     fullyDischarged         |-> Bit(rawStatus, 16),
     errorCode               |-> rawStatus % 16]

(* Driver::read(Reading, Status&) *)
read_Status(w, reading, v) ==
    IF reading # BatteryStatus THEN [w |-> w, st |-> HAL_ERROR, data |-> v]
    ELSE Bind(readWord(w, BatteryStatus, 0), LAMBDA r :
         Bind(IF r.st = HAL_OK /\ r.data = Sentinel
              THEN manufacturerBlockAccessRead(r.w, BatteryStatus, r.data)
              ELSE r, LAMBDA f :
             [w |-> f.w, st |-> f.st,
              data |-> IF f.st = HAL_OK THEN DecodeStatus(f.data) ELSE v]))

----------------------------------------------------------------------------
(* Composite snapshot read (bq40z80.cpp); fs lists the statuses of the     *)
(* field reads that were made, in order                                    *)

Snap(r, d, f) == [w |-> r.w, st |-> r.st, data |-> d, fs |-> f]

(* mutant: a failed CycleCount read aborts the snapshot like any other field *)
read_BatteryData_cycleCritical(w, reading, v) ==
    IF reading # AllBatteryData THEN [w |-> w, st |-> HAL_ERROR, data |-> v, fs |-> <<>>]
    ELSE
    Bind(read_u16(w, Voltage, v.voltage), LAMBDA r1 :
    LET v1 == [v EXCEPT !.voltage = r1.data]
        f1 == <<r1.st>>
    IN  IF r1.st # HAL_OK THEN Snap(r1, v1, f1) ELSE
    Bind(read_i16(applyCommandDelay(r1.w), Current, v1.current), LAMBDA r2 :
    LET v2 == [v1 EXCEPT !.current = r2.data]
        f2 == Append(f1, r2.st)
    IN  IF r2.st # HAL_OK THEN Snap(r2, v2, f2) ELSE
    Bind(read_u16(applyCommandDelay(r2.w), Temperature, v2.temperature), LAMBDA r3 :
    LET v3 == [v2 EXCEPT !.temperature = r3.data]
        f3 == Append(f2, r3.st)
    IN  IF r3.st # HAL_OK THEN Snap(r3, v3, f3) ELSE
    Bind(read_u8(applyCommandDelay(r3.w), StateOfCharge, v3.stateOfCharge), LAMBDA r4 :
    LET v4 == [v3 EXCEPT !.stateOfCharge = r4.data]
        f4 == Append(f3, r4.st)
    IN  IF r4.st # HAL_OK THEN Snap(r4, v4, f4) ELSE
    Bind(read_u16(applyCommandDelay(r4.w), RemainingCapacity, v4.remainingCapacity), LAMBDA r5 :
    LET v5 == [v4 EXCEPT !.remainingCapacity = r5.data]
        f5 == Append(f4, r5.st)
    IN  IF r5.st # HAL_OK THEN Snap(r5, v5, f5) ELSE
    Bind(read_u16(applyCommandDelay(r5.w), FullChargeCapacity, v5.fullChargeCapacity), LAMBDA r6 :
    LET v6 == [v5 EXCEPT !.fullChargeCapacity = r6.data]
        f6 == Append(f5, r6.st)
    IN  IF r6.st # HAL_OK THEN Snap(r6, v6, f6) ELSE
    Bind(read_u16(applyCommandDelay(r6.w), CycleCount, v6.cycleCount), LAMBDA r7 :
    LET v7 == [v6 EXCEPT !.cycleCount = IF r7.st # HAL_OK THEN 0 ELSE r7.data]
        f7 == Append(f6, r7.st)
    IN  IF r7.st # HAL_OK THEN Snap(r7, v7, f7) ELSE
    Bind(read_Status(applyCommandDelay(r7.w), BatteryStatus, v7.status), LAMBDA r8 :
    LET v8 == [v7 EXCEPT !.status = r8.data]
        f8 == Append(f7, r8.st)
    IN  IF r8.st # HAL_OK THEN Snap(r8, v8, f8)
        ELSE [w |-> r8.w, st |-> HAL_OK, data |-> v8, fs |-> f8]
    ))))))))

(* mutant: a failed Temperature read does not stop the sequence *)
read_BatteryData_keepGoing(w, reading, v) ==
    IF reading # AllBatteryData THEN [w |-> w, st |-> HAL_ERROR, data |-> v, fs |-> <<>>]
    ELSE
    Bind(read_u16(w, Voltage, v.voltage), LAMBDA r1 :
    LET v1 == [v EXCEPT !.voltage = r1.data]
        f1 == <<r1.st>>
    IN  IF r1.st # HAL_OK THEN Snap(r1, v1, f1) ELSE
    Bind(read_i16(applyCommandDelay(r1.w), Current, v1.current), LAMBDA r2 :
    LET v2 == [v1 EXCEPT !.current = r2.data]
        f2 == Append(f1, r2.st)
    IN  IF r2.st # HAL_OK THEN Snap(r2, v2, f2) ELSE
    Bind(read_u16(applyCommandDelay(r2.w), Temperature, v2.temperature), LAMBDA r3 :
    LET v3 == [v2 EXCEPT !.temperature = r3.data]
        f3 == Append(f2, r3.st)
    IN
    Bind(read_u8(applyCommandDelay(r3.w), StateOfCharge, v3.stateOfCharge), LAMBDA r4 :
    LET v4 == [v3 EXCEPT !.stateOfCharge = r4.data]
        f4 == Append(f3, r4.st)
    IN  IF r4.st # HAL_OK THEN Snap(r4, v4, f4) ELSE
    Bind(read_u16(applyCommandDelay(r4.w), RemainingCapacity, v4.remainingCapacity), LAMBDA r5 :
    LET v5 == [v4 EXCEPT !.remainingCapacity = r5.data]
        f5 == Append(f4, r5.st)
    IN  IF r5.st # HAL_OK THEN Snap(r5, v5, f5) ELSE
    Bind(read_u16(applyCommandDelay(r5.w), FullChargeCapacity, v5.fullChargeCapacity), LAMBDA r6 :
    LET v6 == [v5 EXCEPT !.fullChargeCapacity = r6.data]
        f6 == Append(f5, r6.st)
    IN  IF r6.st # HAL_OK THEN Snap(r6, v6, f6) ELSE
    Bind(read_u16(applyCommandDelay(r6.w), CycleCount, v6.cycleCount), LAMBDA r7 :
    LET v7 == [v6 EXCEPT !.cycleCount = IF r7.st # HAL_OK THEN 0 ELSE r7.data]
        f7 == Append(f6, r7.st)
    IN
    Bind(read_Status(applyCommandDelay(r7.w), BatteryStatus, v7.status), LAMBDA r8 :
    LET v8 == [v7 EXCEPT !.status = r8.data]
        f8 == Append(f7, r8.st)
    IN  IF r8.st # HAL_OK THEN Snap(r8, v8, f8)
        ELSE [w |-> r8.w, st |-> HAL_OK, data |-> v8, fs |-> f8]
    ))))))))

(* Driver::read(Reading, BatteryData&) *)
read_BatteryData(w, reading, v) ==
    IF reading # AllBatteryData THEN [w |-> w, st |-> HAL_ERROR, data |-> v, fs |-> <<>>]
    ELSE
    Bind(read_u16(w, Voltage, v.voltage), LAMBDA r1 :
    LET v1 == [v EXCEPT !.voltage = r1.data]
        f1 == <<r1.st>>
    IN  IF r1.st # HAL_OK THEN Snap(r1, v1, f1) ELSE
    Bind(read_i16(applyCommandDelay(r1.w), Current, v1.current), LAMBDA r2 :
    LET v2 == [v1 EXCEPT !.current = r2.data]
        f2 == Append(f1, r2.st)
    IN  IF r2.st # HAL_OK THEN Snap(r2, v2, f2) ELSE
    Bind(read_u16(applyCommandDelay(r2.w), Temperature, v2.temperature), LAMBDA r3 :
    LET v3 == [v2 EXCEPT !.temperature = r3.data]
        f3 == Append(f2, r3.st)
    IN  IF r3.st # HAL_OK THEN Snap(r3, v3, f3) ELSE
    Bind(read_u8(applyCommandDelay(r3.w), StateOfCharge, v3.stateOfCharge), LAMBDA r4 :
    LET v4 == [v3 EXCEPT !.stateOfCharge = r4.data]
        f4 == Append(f3, r4.st)
    IN  IF r4.st # HAL_OK THEN Snap(r4, v4, f4) ELSE
    Bind(read_u16(applyCommandDelay(r4.w), RemainingCapacity, v4.remainingCapacity), LAMBDA r5 :
    LET v5 == [v4 EXCEPT !.remainingCapacity = r5.data]
        f5 == Append(f4, r5.st)
    IN  IF r5.st # HAL_OK THEN Snap(r5, v5, f5) ELSE
    Bind(read_u16(applyCommandDelay(r5.w), FullChargeCapacity, v5.fullChargeCapacity), LAMBDA r6 :
    LET v6 == [v5 EXCEPT !.fullChargeCapacity = r6.data]
        f6 == Append(f5, r6.st)
    IN  IF r6.st # HAL_OK THEN Snap(r6, v6, f6) ELSE
    Bind(read_u16(applyCommandDelay(r6.w), CycleCount, v6.cycleCount), LAMBDA r7 :
    LET v7 == [v6 EXCEPT !.cycleCount = IF r7.st # HAL_OK THEN 0 ELSE r7.data]
        f7 == Append(f6, r7.st)
    IN
    Bind(read_Status(applyCommandDelay(r7.w), BatteryStatus, v7.status), LAMBDA r8 :
    LET v8 == [v7 EXCEPT !.status = r8.data]
        f8 == Append(f7, r8.st)
    IN  IF r8.st # HAL_OK THEN Snap(r8, v8, f8)
        ELSE [w |-> r8.w, st |-> HAL_OK, data |-> v8, fs |-> f8]
    ))))))))

----------------------------------------------------------------------------
(* Initialization and recovery (bq40z80.cpp)                               *)

MFA_DEVICE_RESET == 65      \* 0x0041
UNSEAL_KEY_1 == 1044        \* 0x0414
UNSEAL_KEY_2 == 13938       \* 0x3672
BATTERY_MODE_NORMAL == 24705 \* 0x6081

(* mutant: every value but 0x6081 starts the recovery *)
init_recoverUnlessNormal(w) ==
    Bind(readWord(w, 3, 0), LAMBDA p :
        IF p.st = HAL_OK
        THEN IF p.data = BATTERY_MODE_NORMAL THEN [w |-> p.w, st |-> HAL_OK]
             ELSE IF p.data # BATTERY_MODE_NORMAL
             THEN Bind(manufacturerCommand(p.w, MFA_DEVICE_RESET), LAMBDA m1 :
                  Bind(manufacturerCommand(HAL_Delay_MS(m1.w, 500), UNSEAL_KEY_1), LAMBDA m2 :
                  Bind(manufacturerCommand(HAL_Delay_MS(m2.w, 10), UNSEAL_KEY_2), LAMBDA m3 :
                  Bind(readWord(HAL_Delay_MS(m3.w, 100), 3, 0), LAMBDA t :
                      IF t.st = HAL_OK /\ t.data # Sentinel
                      THEN [w |-> t.w, st |-> HAL_OK]
                      ELSE [w |-> t.w, st |-> HAL_OK]))))
             ELSE [w |-> p.w, st |-> HAL_OK]
        ELSE [w |-> p.w, st |-> HAL_OK])

(* mutant: the second unseal key is sent before the first *)
init_keysSwapped(w) ==
    Bind(readWord(w, 3, 0), LAMBDA p :
        IF p.st = HAL_OK
        THEN IF p.data = BATTERY_MODE_NORMAL THEN [w |-> p.w, st |-> HAL_OK]
             ELSE IF p.data = Sentinel
             THEN Bind(manufacturerCommand(p.w, MFA_DEVICE_RESET), LAMBDA m1 :
                  Bind(manufacturerCommand(HAL_Delay_MS(m1.w, 500), UNSEAL_KEY_2), LAMBDA m2 :
                  Bind(manufacturerCommand(HAL_Delay_MS(m2.w, 10), UNSEAL_KEY_1), LAMBDA m3 :
                  Bind(readWord(HAL_Delay_MS(m3.w, 100), 3, 0), LAMBDA t :
                      IF t.st = HAL_OK /\ t.data # Sentinel
                      THEN [w |-> t.w, st |-> HAL_OK]
                      ELSE [w |-> t.w, st |-> HAL_OK]))))
             ELSE [w |-> p.w, st |-> HAL_OK]
        ELSE [w |-> p.w, st |-> HAL_OK])

(* mutant: a failed probe or a failed recovery is reported to the caller *)
init_strict(w) ==
    Bind(readWord(w, 3, 0), LAMBDA p :
        IF p.st = HAL_OK
        THEN IF p.data = BATTERY_MODE_NORMAL THEN [w |-> p.w, st |-> HAL_OK]
             ELSE IF p.data = Sentinel
             THEN Bind(manufacturerCommand(p.w, MFA_DEVICE_RESET), LAMBDA m1 :
                  Bind(manufacturerCommand(HAL_Delay_MS(m1.w, 500), UNSEAL_KEY_1), LAMBDA m2 :
                  Bind(manufacturerCommand(HAL_Delay_MS(m2.w, 10), UNSEAL_KEY_2), LAMBDA m3 :
                  Bind(readWord(HAL_Delay_MS(m3.w, 100), 3, 0), LAMBDA t :
                      IF t.st = HAL_OK /\ t.data # Sentinel
                      THEN [w |-> t.w, st |-> HAL_OK]
                      ELSE [w |-> t.w, st |-> HAL_ERROR]))))
             ELSE [w |-> p.w, st |-> HAL_OK]
        ELSE [w |-> p.w, st |-> p.st])

(* mutant: a first probe that is neither 0x6081 nor 0x16CC is read again *)
init_doubleProbe(w) ==
    Bind(readWord(w, 3, 0), LAMBDA p :
        IF p.st = HAL_OK
        THEN IF p.data = BATTERY_MODE_NORMAL THEN [w |-> p.w, st |-> HAL_OK]
             ELSE IF p.data = Sentinel
             THEN Bind(manufacturerCommand(p.w, MFA_DEVICE_RESET), LAMBDA m1 :
                  Bind(manufacturerCommand(HAL_Delay_MS(m1.w, 500), UNSEAL_KEY_1), LAMBDA m2 :
                  Bind(manufacturerCommand(HAL_Delay_MS(m2.w, 10), UNSEAL_KEY_2), LAMBDA m3 :
                  Bind(readWord(HAL_Delay_MS(m3.w, 100), 3, 0), LAMBDA t :
                      [w |-> t.w, st |-> HAL_OK]))))
             ELSE Bind(readWord(p.w, 3, 0), LAMBDA t : [w |-> t.w, st |-> HAL_OK])
        ELSE [w |-> p.w, st |-> HAL_OK])

(* mutant: a recovery command that is not acknowledged ends the recovery *)
init_abortOnFailedCommand(w) ==
    Bind(readWord(w, 3, 0), LAMBDA p :
        IF p.st = HAL_OK
        THEN IF p.data = BATTERY_MODE_NORMAL THEN [w |-> p.w, st |-> HAL_OK]
             ELSE IF p.data = Sentinel
             THEN Bind(manufacturerCommand(p.w, MFA_DEVICE_RESET), LAMBDA m1 :
                  IF m1.st # HAL_OK THEN [w |-> m1.w, st |-> HAL_OK] ELSE
                  Bind(manufacturerCommand(HAL_Delay_MS(m1.w, 500), UNSEAL_KEY_1), LAMBDA m2 :
                  IF m2.st # HAL_OK THEN [w |-> m2.w, st |-> HAL_OK] ELSE
                  Bind(manufacturerCommand(HAL_Delay_MS(m2.w, 10), UNSEAL_KEY_2), LAMBDA m3 :
                  IF m3.st # HAL_OK THEN [w |-> m3.w, st |-> HAL_OK] ELSE
                  Bind(readWord(HAL_Delay_MS(m3.w, 100), 3, 0), LAMBDA t :
                      [w |-> t.w, st |-> HAL_OK]))))
             ELSE [w |-> p.w, st |-> HAL_OK]
        ELSE [w |-> p.w, st |-> HAL_OK])

(* Driver::init() *)
init(w) ==
    Bind(readWord(w, 3, 0), LAMBDA p :
        IF p.st = HAL_OK
        THEN IF p.data = BATTERY_MODE_NORMAL THEN [w |-> p.w, st |-> HAL_OK]
             ELSE IF p.data = Sentinel
             THEN Bind(manufacturerCommand(p.w, MFA_DEVICE_RESET), LAMBDA m1 :
                  Bind(manufacturerCommand(HAL_Delay_MS(m1.w, 500), UNSEAL_KEY_1), LAMBDA m2 :
                  Bind(manufacturerCommand(HAL_Delay_MS(m2.w, 10), UNSEAL_KEY_2), LAMBDA m3 :
                  Bind(readWord(HAL_Delay_MS(m3.w, 100), 3, 0), LAMBDA t :
                      IF t.st = HAL_OK /\ t.data # Sentinel
                      THEN [w |-> t.w, st |-> HAL_OK]
                      ELSE [w |-> t.w, st |-> HAL_OK]))))
             ELSE [w |-> p.w, st |-> HAL_OK]
        ELSE [w |-> p.w, st |-> HAL_OK])

----------------------------------------------------------------------------
(* Settings, strings and the public ManufacturerAccess calls (bq40z80.cpp) *)

(* mutant: values above 0x7FFF are refused *)
write_bounded(w, setting, v) ==
    IF v > 32767 THEN [w |-> w, st |-> HAL_ERROR]
    ELSE writeWord(w, setting, v)

(* Driver::write(Setting, uint16_t) *)
write(w, setting, v) == writeWord(w, setting, v)

(* std::string::pop_back() when the last character is NUL *)
StripNul(s) == IF s # <<>> /\ s[Len(s)] = 0 THEN SubSeq(s, 1, Len(s) - 1) ELSE s

(* Driver::read(Reading, std::string&); a string is its sequence of bytes *)
read_string(w, reading, v) ==
    IF reading \in {ManufacturerName, DeviceName}
    THEN Bind(readBlock(w, reading, <<>>), LAMBDA r :
             [w |-> r.w, st |-> r.st,
              data |-> IF r.st = HAL_OK /\ r.data # <<>> THEN StripNul(r.data) ELSE v])
    ELSE [w |-> w, st |-> HAL_ERROR, data |-> v]

(* mutant: the reset delay is applied and OK returned whatever the transmit did *)
reset_ignoreStatus(w) ==
    Bind(manufacturerCommand(w, MFA_DEVICE_RESET), LAMBDA m :
        [w |-> vTaskDelay(m.w, 100), st |-> HAL_OK])

(* Driver::reset() *)
reset(w) ==
    Bind(manufacturerCommand(w, MFA_DEVICE_RESET), LAMBDA m :
        IF m.st = HAL_OK THEN [w |-> vTaskDelay(m.w, 100), st |-> m.st]
        ELSE [w |-> m.w, st |-> m.st])

(* Driver::readMAC(MACCommand, uint16_t&) *)
readMAC(w, command, v) == manufacturerBlockAccessRead(w, command, v)

(* mutant: the data word follows the command without the inter-command delay *)
writeMAC_noDelay(w, command, v) ==
    IF v = 0 THEN manufacturerCommand(w, command)
    ELSE Bind(manufacturerCommand(w, command), LAMBDA m :
             IF m.st = HAL_OK THEN writeWord(m.w, 0, v)
             ELSE [w |-> m.w, st |-> m.st])

(* Driver::writeMAC(MACCommand, uint16_t) *)
writeMAC(w, command, v) ==
    IF v = 0 THEN manufacturerCommand(w, command)
    ELSE Bind(manufacturerCommand(w, command), LAMBDA m :
             IF m.st = HAL_OK THEN writeWord(applyCommandDelay(m.w), 0, v)
             ELSE [w |-> m.w, st |-> m.st])

----------------------------------------------------------------------------
(* Transport answers the calls are exercised with                          *)

MaxBlockLen == 5        \* longest block payload among the sampled answers

Fail == {HAL_ERROR, HAL_BUSY, HAL_TIMEOUT}

Ok(data) == [st |-> HAL_OK, data |-> data]
Nak(s) == [st |-> s, data |-> <<>>]

(* 2-byte answers to a word read: 0x16CC, 0x2710, 0x6081 *)
WordAnswers == {<<204, 22>>, <<16, 39>>, <<129, 96>>}

(* block answers [length, payload...]: an echoed command, a result, padding *)
EchoSamples == {<<9, 0>>, <<9, 1>>}
ResultSamples == {<<16, 39>>, <<204, 22>>}

BlockFrame(n, e, r) ==
    <<n>> \o [i \in 1..n |-> IF i = 1 THEN e[1] ELSE IF i = 2 THEN e[2]
                             ELSE IF i = 3 THEN r[1] ELSE IF i = 4 THEN r[2] ELSE 0]

BlockAnswers ==
    {BlockFrame(n, e, r) : n \in 0..MaxBlockLen, e \in EchoSamples, r \in ResultSamples}
    \cup {<<33, 9, 0, 16, 39>>}

(* the answers one direct word read consumes *)
DirectScripts ==
    {<<Nak(s)>> : s \in Fail}
    \cup {<<Ok(<<>>), Nak(s)>> : s \in Fail}
    \cup {<<Ok(<<>>), Ok(d)>> : d \in WordAnswers}

(* the answers one ManufacturerBlockAccess transaction consumes *)
FallbackScripts ==
    {<<Nak(s)>> : s \in Fail}
    \cup {<<Ok(<<>>), Nak(s)>> : s \in Fail}
    \cup {<<Ok(<<>>), Ok(<<>>), Nak(s)>> : s \in Fail}
    \cup {<<Ok(<<>>), Ok(<<>>), Ok(b)>> : b \in BlockAnswers}

(* a direct read that returns a live value is followed by no other transfer *)
NeedsFallback(d) ==
    \/ d[Len(d)].st # HAL_OK
    \/ Word(d[Len(d)].data[1], d[Len(d)].data[2]) = Sentinel

ReadScripts ==
    {d \in DirectScripts : ~NeedsFallback(d)}
    \cup {d \o f : d \in {x \in DirectScripts : NeedsFallback(x)}, f \in FallbackScripts}

(* init(): the probe, then (after a sentinel) three passthrough transmits  *)
(* with any outcome each, then the re-probe                                *)
RecoveryScripts ==
    {<<[st |-> a, data |-> <<>>], [st |-> b, data |-> <<>>], [st |-> c, data |-> <<>>]>> :
        a \in HAL_StatusTypeDef, b \in HAL_StatusTypeDef, c \in HAL_StatusTypeDef}

InitScripts ==
    {d \in DirectScripts : d # <<Ok(<<>>), Ok(<<204, 22>>)>>}
    \cup {<<Ok(<<>>), Ok(<<204, 22>>)>> \o m \o d : m \in RecoveryScripts, d \in DirectScripts}

(* composite read: one piece of script per field, in the order of the reads *)
Fields == <<Voltage, Current, Temperature, StateOfCharge, RemainingCapacity,
            FullChargeCapacity, CycleCount, BatteryStatus>>

OkKinds == {"direct", "sentinel", "nak", "mixed"}
FailKinds == {"sentinelBusy", "nakTimeout", "echo", "short"}

(* answers that make the read of register reg succeed *)
OkPiece(kind, i, reg) ==
    LET direct   == <<Ok(<<>>), Ok(<<reg, 128>>)>>
        sentinel == <<Ok(<<>>), Ok(<<204, 22>>), Ok(<<>>), Ok(<<>>),
                      Ok(BlockFrame(4, <<reg, 0>>, <<16, 39>>))>>
        nak      == <<Nak(HAL_TIMEOUT), Ok(<<>>), Ok(<<>>),
                      Ok(BlockFrame(4, <<reg, 0>>, <<16, 39>>))>>
    IN  CASE kind = "direct"   -> direct
          [] kind = "sentinel" -> sentinel
          [] kind = "nak"      -> nak
          [] kind = "mixed"    -> IF i % 2 = 1 THEN direct ELSE sentinel

(* answers that make the direct path and the fallback of reg both fail *)
FailPiece(kind, reg) ==
    CASE kind = "sentinelBusy" -> <<Ok(<<>>), Ok(<<204, 22>>), Nak(HAL_BUSY)>>
      [] kind = "nakTimeout"   -> <<Nak(HAL_ERROR), Nak(HAL_TIMEOUT)>>
      [] kind = "echo"         -> <<Ok(<<>>), Ok(<<204, 22>>), Ok(<<>>), Ok(<<>>),
                                    Ok(BlockFrame(4, <<reg, 1>>, <<16, 39>>))>>
      [] kind = "short"        -> <<Ok(<<>>), Nak(HAL_TIMEOUT), Ok(<<>>), Ok(<<>>),
                                    Ok(<<2, reg, 0>>)>>

RECURSIVE SnapshotScript(_, _, _, _)
SnapshotScript(i, failing, fk, ok) ==
    IF i > Len(Fields) THEN <<>>
    ELSE (IF i \in failing THEN FailPiece(fk, Fields[i]) ELSE OkPiece(ok, i, Fields[i]))
         \o SnapshotScript(i + 1, failing, fk, ok)

FailingSets == {{}} \cup {{i} : i \in 1..Len(Fields)} \cup {{7, 8}}

SnapshotScripts ==
    {SnapshotScript(1, fs, fk, ok) : fs \in FailingSets, fk \in FailKinds, ok \in OkKinds}

NoStatus == DecodeStatus(0)
NoData == [voltage |-> 0, current |-> 0, temperature |-> 0, stateOfCharge |-> 0,
           remainingCapacity |-> 0, fullChargeCapacity |-> 0, cycleCount |-> 0,
           status |-> NoStatus]

PriorData == [voltage |-> 12000, current |-> -1000, temperature |-> 2982,
              stateOfCharge |-> 75, remainingCapacity |-> 1500,
              fullChargeCapacity |-> 3000, cycleCount |-> 7,
              status |-> DecodeStatus(192)]
PriorSnapshots == {NoData, PriorData}

Readings16 == {Voltage, Current}
PriorValues == {0, 12000}

(* a float is (-1)^neg * m * 2^e; 0.0f before any conversion was made *)
NoFloat == [neg |-> FALSE, m |-> 0, e |-> 0]

(* BatteryTelemetryData after memset(&telemetry, 0, sizeof(telemetry)); the *)
(* fields are those getBatteryTelemetryData assigns                        *)
NoTelemetry ==
    [timestamp_ms |-> 0, voltage_mV |-> 0, current_mA |-> 0, temperature_01K |-> 0,
     state_of_charge |-> 0, remaining_capacity_mAh |-> 0,
     full_charge_capacity_mAh |-> 0, cycle_count |-> 0,
     status_flags |-> [over_charged_alarm |-> FALSE, terminate_charge_alarm |-> FALSE,
                       over_temp_alarm |-> FALSE, terminate_discharge_alarm |-> FALSE,
                       remaining_capacity_alarm |-> FALSE, remaining_time_alarm |-> FALSE,
                       initialized |-> FALSE, discharging |-> FALSE],
     status_flags_ext |-> [fully_charged |-> FALSE, fully_discharged |-> FALSE],
     error_code |-> 0, data_quality |-> 0]

(* the tasks that share the driver, and a task that is not inside a call *)
Tasks == {"A", "B"}
Idle == [pc |-> "idle", cmd |-> 0, st |-> HAL_OK, data |-> 0, other |-> 0]


----------------------------------------------------------------------------
(* State machine: a constructed driver, then one action per driver call    *)

Init ==
    /\ config_ = defaultConfig
    /\ writeAddress_ = WriteAddressOf(defaultConfig)
    /\ readAddress_ = ReadAddressOf(defaultConfig)
    /\ op = "none"
    /\ what = 0
    /\ script = <<>>
    /\ status = HAL_OK
    /\ log = <<>>
    /\ value = 0
    /\ value0 = 0
    /\ bdata = NoData
    /\ bdata0 = NoData
    /\ fstat = <<>>
    /\ arg = 0
    /\ bytes = <<>>
    /\ blk = <<>>
    /\ blk0 = <<>>
    /\ stat = NoStatus
    /\ stat0 = NoStatus
    /\ celsius = NoFloat
    /\ task = [t \in Tasks |-> Idle]
    /\ pointer = 0
    /\ telemetry = NoTelemetry
    /\ telemetry0 = NoTelemetry

World(sc) == [script |-> sc, log |-> <<>>]

ReadU16 ==
    \E reading \in Readings16, sc \in ReadScripts, v0 \in PriorValues :
        LET r == read_u16(World(sc), reading, v0)
        IN  /\ op' = "read_u16"
            /\ what' = reading
            /\ script' = sc
            /\ status' = r.st
            /\ log' = r.w.log
            /\ value' = r.data
            /\ value0' = v0
            /\ UNCHANGED <<config_, writeAddress_, readAddress_, celsius, task, pointer,
                           telemetry, telemetry0,
                           arg, bytes, blk, blk0,
                           stat, stat0, bdata, bdata0, fstat>>

Next == ReadU16

Spec == Init /\ [][Next]_vars

DriverInit ==
    \E sc \in InitScripts :
        LET r == init(World(sc))
        IN  /\ op' = "init"
            /\ what' = 0
            /\ script' = sc
            /\ status' = r.st
            /\ log' = r.w.log
            /\ UNCHANGED <<config_, writeAddress_, readAddress_, celsius, task, pointer,
                           telemetry, telemetry0,
                           arg, bytes, blk, blk0,
                           stat, stat0, value, value0,
                           bdata, bdata0, fstat>>

NextInit == DriverInit

SpecInit == Init /\ [][NextInit]_vars

ReadAllBatteryData ==
    \E sc \in SnapshotScripts, d0 \in PriorSnapshots :
        LET r == read_BatteryData(World(sc), AllBatteryData, d0)
        IN  /\ op' = "read_BatteryData"
            /\ what' = AllBatteryData
            /\ script' = sc
            /\ status' = r.st
            /\ log' = r.w.log
            /\ bdata' = r.data
            /\ bdata0' = d0
            /\ fstat' = r.fs
            /\ UNCHANGED <<config_, writeAddress_, readAddress_, celsius, task, pointer,
                           telemetry, telemetry0,
                           arg, bytes, blk, blk0,
                           stat, stat0, value, value0>>

NextSnapshot == ReadAllBatteryData

SpecSnapshot == Init /\ [][NextSnapshot]_vars

----------------------------------------------------------------------------
(* What the transport did during the last call, read off the script        *)

(* the direct word read: how many answers it consumed, and its outcome *)
DirectLen == IF script[1].st # HAL_OK THEN 1 ELSE 2
DirectFailed == script[DirectLen].st # HAL_OK
DirectWord == Word(script[2].data[1], script[2].data[2])
DirectSentinel == ~DirectFailed /\ DirectWord = Sentinel

(* the block answer of the fallback transaction, when one was received *)
BlockIdx == DirectLen + 3
BlockReceived ==
    /\ Len(script) >= BlockIdx
    /\ \A i \in (DirectLen + 1)..BlockIdx : script[i].st = HAL_OK
Block == script[BlockIdx].data
BlockFramed == BlockReceived /\ Block[1] >= 4 /\ Block[1] <= 32 /\ Len(Block) >= 5
BlockEcho == Word(Block[2], Block[3])
BlockResult == Word(Block[4], Block[5])

(* the transmit events of the bus trace, in order *)
Transmits == SelectSeq(log, LAMBDA e : e.kind = "tx")
Receives == SelectSeq(log, LAMBDA e : e.kind = "rx")

(* the trace holds a ManufacturerBlockAccess transaction for command c *)
FallbackWriteAt(i, c) ==
    /\ Len(Transmits) >= i
    /\ Transmits[i].frame = <<68, 2, Lo(c), Hi(c)>>
    /\ Transmits[i].addr = writeAddress_
FallbackReadAt(i) ==
    /\ Len(Transmits) >= i
    /\ Transmits[i].frame = <<68>>
    /\ Len(Receives) >= 2
    /\ Receives[2].size = 33

----------------------------------------------------------------------------
(* C1: read(Reading, uint16): when the direct readWord succeeds with the   *)
(* sentinel 0x16CC, a ManufacturerBlockAccess transaction for the same     *)
(* register code is performed, and a block response of at least 4 bytes    *)
(* whose first two bytes (little-endian) equal the register code makes     *)
(* read return OK with value = response[2] | (response[3] << 8).           *)
C1_SentinelFallbackValue ==
    (op = "read_u16" /\ DirectSentinel /\ BlockFramed /\ BlockEcho = what)
        => /\ FallbackWriteAt(2, what)
           /\ FallbackReadAt(3)
           /\ status = HAL_OK
           /\ value = BlockResult

(* Voltage: direct 0x16CC, block response [0x09,0x00,0x10,0x27,...] gives 10000 *)
C1_Witness ==
    /\ op = "read_u16" /\ what = Voltage /\ DirectSentinel
    /\ BlockFramed /\ Block = <<5, 9, 0, 16, 39, 0>>
    /\ status = HAL_OK /\ value = 10000

(* C2: read(Reading, uint16): a transport failure of the direct readWord   *)
(* (command transmit or 2-byte receive) is not returned at once; the       *)
(* ManufacturerBlockAccess fallback for the same register is attempted and *)
(* read returns the fallback's outcome.                                    *)
C2_TransportFailureFallsBack ==
    (op = "read_u16" /\ DirectFailed)
        => /\ FallbackWriteAt(2, what)
           /\ LET rest == SubSeq(script, DirectLen + 1, Len(script))
                  f == manufacturerBlockAccessRead(World(rest), what, value0)
              IN  /\ status = f.st
                  /\ value = f.data
           /\ (BlockFramed /\ BlockEcho = what) => (status = HAL_OK /\ value = BlockResult)
           /\ script[DirectLen + 1].st # HAL_OK => status = script[DirectLen + 1].st

(* the receive of the direct read timed out and the fallback delivered 10000 *)
C2_Witness ==
    /\ op = "read_u16" /\ DirectLen = 2 /\ script[2].st = HAL_TIMEOUT
    /\ BlockFramed /\ BlockEcho = what
    /\ status = HAL_OK /\ value = 10000 /\ value0 # 10000

(* C3: when the echoed command of the ManufacturerBlockAccess response     *)
(* (bytes 0-1, little-endian) differs from the command sent, the read      *)
(* fails with a protocol error (HAL_ERROR) and the result bytes 2-3 of the *)
(* response are not delivered: the caller's value is what it was before    *)
(* the fallback (its prior content, or the sentinel of the direct read).   *)
C3_EchoMismatchRejected ==
    (op = "read_u16" /\ BlockFramed /\ BlockEcho # what)
        => /\ status = HAL_ERROR
           /\ value = (IF DirectFailed THEN value0 ELSE Sentinel)

(* an echo that differs only in its high byte, carrying a result the caller never sees *)
C3_Witness ==
    /\ op = "read_u16" /\ what = Voltage /\ BlockFramed
    /\ BlockEcho = 265 /\ BlockResult = 10000
    /\ status = HAL_ERROR /\ value # BlockResult

----------------------------------------------------------------------------
(* init(): what the bus trace and the script say                           *)

(* the ManufacturerAccess passthrough transmits: 3-byte frames to register 0x00 *)
IsPassthrough(e) == e.kind = "tx" /\ Len(e.frame) = 3 /\ e.frame[1] = 0
Passthroughs == SelectSeq(log, IsPassthrough)

(* the re-probe after the recovery: answers 6.. of the script *)
ReprobeLive ==
    /\ Len(script) >= 7
    /\ script[6].st = HAL_OK /\ script[7].st = HAL_OK
    /\ Word(script[7].data[1], script[7].data[2]) # Sentinel

(* the trace reduced to what was done, by whom, and for how long *)
Shape == [i \in 1..Len(log) |-> <<log[i].kind, log[i].call, log[i].ms>>]

RecoveryShape ==
    << <<"tx", <<"readWord", 3>>, 0>>,
       <<"HAL_Delay_MS", NoCall, 10>>,
       <<"rx", <<"readWord", 3>>, 0>>,
       <<"tx", <<"manufacturerCommand", MFA_DEVICE_RESET>>, 0>>,
       <<"HAL_Delay_MS", NoCall, 500>>,
       <<"tx", <<"manufacturerCommand", UNSEAL_KEY_1>>, 0>>,
       <<"HAL_Delay_MS", NoCall, 10>>,
       <<"tx", <<"manufacturerCommand", UNSEAL_KEY_2>>, 0>>,
       <<"HAL_Delay_MS", NoCall, 100>>,
       <<"tx", <<"readWord", 3>>, 0>>,
       <<"HAL_Delay_MS", NoCall, 10>>,
       <<"rx", <<"readWord", 3>>, 0>> >>

(* C4: init() transmits reset/unseal commands if and only if its first     *)
(* BatteryMode probe succeeds at the transport level with exactly 0x16CC;  *)
(* for 0x6081, any other value and a transport failure of the probe no     *)
(* passthrough command is transmitted.                                     *)
C4_RecoveryIffSentinel ==
    op = "init" => ((Len(Passthroughs) > 0) <=> DirectSentinel)

(* a probe answered with a value that is neither 0x6081 nor the sentinel *)
C4_Witness ==
    /\ op = "init" /\ ~DirectFailed /\ DirectWord = 10000
    /\ Len(Passthroughs) = 0 /\ Len(Transmits) = 1

(* C5: first probe 0x16CC and a live value after the recovery: init does,  *)
(* in this order, reset, 500 ms, unseal key 1, 10 ms, unseal key 2,        *)
(* 100 ms, one re-probe of BatteryMode; exactly three passthrough commands *)
(* are sent and init returns OK.                                           *)
C5_RecoverySequence ==
    (op = "init" /\ DirectSentinel /\ ReprobeLive)
        => /\ Shape = RecoveryShape
           /\ Len(Passthroughs) = 3
           /\ status = HAL_OK

(* 0x16CC, then 0x6081 after a recovery whose three transmits all succeeded *)
C5_Witness ==
    /\ op = "init" /\ DirectSentinel /\ ReprobeLive
    /\ script[7].data = <<129, 96>>
    /\ \A i \in 3..5 : script[i].st = HAL_OK
    /\ Len(log) = 12 /\ status = HAL_OK

(* C6: every ManufacturerAccess passthrough command transmits to register  *)
(* 0x00 a frame that carries both bytes of the 16-bit command code.        *)
C6_PassthroughCarriesCommand ==
    \A i \in 1..Len(log) :
        (log[i].kind = "tx" /\ log[i].call[1] = "manufacturerCommand")
            => LET c == log[i].call[2]
                   f == log[i].frame
               IN  /\ Len(f) = 3
                   /\ f[1] = 0
                   /\ \/ <<f[2], f[3]>> = <<Hi(c), Lo(c)>>
                      \/ <<f[2], f[3]>> = <<Lo(c), Hi(c)>>

----------------------------------------------------------------------------
(* Composite read: what the script made of each field                      *)

(* the typed read the composite read uses for field i, run on its own *)
FieldRead(i, sc) ==
    CASE i = 2 -> read_i16(World(sc), Fields[i], 0)
      [] i = 4 -> read_u8(World(sc), Fields[i], 0)
      [] i = 8 -> read_Status(World(sc), Fields[i], NoStatus)
      [] OTHER -> read_u16(World(sc), Fields[i], 0)

(* the script lets every field before i succeed and makes field i fail *)
FailsFirstAt(i, fk, ok) ==
    /\ \E fs \in FailingSets : i \in fs /\ (\A j \in fs : j >= i \/ j = 7)
                               /\ (\A j \in fs : j < i => j = 7)
                               /\ script = SnapshotScript(1, fs, fk, ok)
    /\ FieldRead(i, FailPiece(fk, Fields[i])).st # HAL_OK

(* the register a transmit names: the command byte, or for a block write   *)
(* to 0x44 the command it carries                                          *)
NamedRegister(e) ==
    IF e.frame[1] = 68 /\ Len(e.frame) >= 3 THEN e.frame[3] ELSE e.frame[1]

LaterFields(i) == {Fields[j] : j \in (i + 1)..Len(Fields)}

(* the script fails CycleCount (direct path and fallback) and nothing else *)
OnlyCycleCountFails ==
    \E fk \in FailKinds, ok \in OkKinds \ {"nak"} : script = SnapshotScript(1, {7}, fk, ok)

(* C8: composite read: all of Voltage, Current, Temperature, StateOfCharge, *)
(* RemainingCapacity, FullChargeCapacity, BatteryStatus succeed and the    *)
(* CycleCount read fails (direct path and fallback): the call returns OK   *)
(* and the snapshot has cycleCount == 0.                                   *)
C8_CycleCountBestEffort ==
    (op = "read_BatteryData" /\ OnlyCycleCountFails)
        => /\ status = HAL_OK
           /\ bdata.cycleCount = 0
           /\ Len(fstat) = 8
           /\ fstat[7] # HAL_OK
           /\ \A i \in (1..8) \ {7} : fstat[i] = HAL_OK

(* the caller's snapshot held cycleCount 7; the failed read left it at 0 *)
C8_Witness ==
    /\ op = "read_BatteryData" /\ OnlyCycleCountFails
    /\ bdata0.cycleCount = 7 /\ bdata.cycleCount = 0
    /\ fstat[7] = HAL_BUSY /\ status = HAL_OK
    /\ bdata.voltage = 32777 /\ bdata.fullChargeCapacity = 32784

(* C9: composite read: if the Voltage read fails, the call fails and no    *)
(* snapshot is populated: every field of the caller's BatteryData          *)
(* (voltage included) holds the value it had before the call.              *)
C9_VoltageFailureLeavesSnapshot ==
    (op = "read_BatteryData" /\ \E fk \in FailKinds, ok \in OkKinds : FailsFirstAt(1, fk, ok))
        => /\ status # HAL_OK
           /\ bdata = bdata0

(* C10: composite read: a failure of a field other than CycleCount aborts  *)
(* the call at that field: the call returns that field read's failure      *)
(* status and no bus transaction for a later field is issued.              *)
C10_FailureAbortsAtField ==
    \A i \in (1..8) \ {7} : \A fk \in FailKinds, ok \in OkKinds :
        (op = "read_BatteryData" /\ FailsFirstAt(i, fk, ok))
            => /\ status = FieldRead(i, FailPiece(fk, Fields[i])).st
               /\ Len(fstat) = i
               /\ fstat[i] = status
               /\ \A k \in 1..Len(Transmits) :
                      NamedRegister(Transmits[k]) \notin LaterFields(i)

(* Temperature fails with HAL_BUSY; the answers queued for the five later  *)
(* fields are never asked for                                              *)
C10_Witness ==
    /\ op = "read_BatteryData"
    /\ \E ok \in OkKinds : FailsFirstAt(3, "sentinelBusy", ok)
    /\ status = HAL_BUSY /\ fstat = <<HAL_OK, HAL_OK, HAL_BUSY>>
    /\ Len(Transmits) + Len(Receives) < Len(script)
    /\ NamedRegister(Transmits[Len(Transmits)]) = Temperature

----------------------------------------------------------------------------
(* The transport primitives and write(), called on their own               *)

WordCommands == {3, 9, 255}
ByteSamples == {0, 7, 208}

WordScripts ==
    {<<Nak(s)>> : s \in Fail}
    \cup {<<Ok(<<>>), Nak(s)>> : s \in Fail}
    \cup {<<Ok(<<>>), Ok(<<b0, b1>>)>> : b0 \in ByteSamples, b1 \in ByteSamples}

WriteValues == {0, 2000, 40000, 65535}
Settings == {3, ChargingCurrent, ChargingVoltage}

(* a received block: every length prefix the check can meet, then 32 bytes *)
BlockLengths == (0..(SMBUS_MAX_BLOCK_SIZE + 1)) \cup {255}
FullFrame(n) == <<n>> \o [i \in 1..SMBUS_MAX_BLOCK_SIZE |-> 100 + i]

BlockScripts ==
    {<<Nak(s)>> : s \in Fail}
    \cup {<<Ok(<<>>), Nak(s)>> : s \in Fail}
    \cup {<<Ok(<<>>), Ok(FullFrame(n))>> : n \in BlockLengths}

PriorBlocks == {<<>>, <<65, 66>>}
BlockCommands == {ManufacturerName, 68}
WriteSizes == {0, 2, SMBUS_MAX_BLOCK_SIZE, SMBUS_MAX_BLOCK_SIZE + 1, 40}

(* the outputs a call does not have are left in their constructed state *)
Fixed ==
    UNCHANGED <<config_, writeAddress_, readAddress_, celsius, task, pointer,
                telemetry, telemetry0>>
NoScalar == value' = 0 /\ value0' = 0
NoArg == arg' = 0 /\ bytes' = <<>>
NoBlock == blk' = <<>> /\ blk0' = <<>>
NoStat == stat' = NoStatus /\ stat0' = NoStatus
NoSnapshot == bdata' = NoData /\ bdata0' = NoData /\ fstat' = <<>>

ReadWord ==
    \E cmd \in WordCommands, sc \in WordScripts, v0 \in PriorValues :
        LET r == readWord(World(sc), cmd, v0)
        IN  /\ op' = "readWord"
            /\ what' = cmd
            /\ script' = sc
            /\ status' = r.st
            /\ log' = r.w.log
            /\ value' = r.data
            /\ value0' = v0
            /\ bytes' = <<>> /\ arg' = 0
            /\ Fixed /\ NoBlock /\ NoStat /\ NoSnapshot

WriteWord ==
    \E cmd \in {0, ChargingCurrent}, v \in WriteValues, a \in HAL_StatusTypeDef :
        LET r == writeWord(World(<<Nak(a)>>), cmd, v)
        IN  /\ op' = "writeWord"
            /\ what' = cmd
            /\ script' = <<Nak(a)>>
            /\ status' = r.st
            /\ log' = r.w.log
            /\ arg' = v
            /\ bytes' = <<>>
            /\ Fixed /\ NoScalar /\ NoBlock /\ NoStat /\ NoSnapshot

(* readWord, then writeWord of the value it decoded, to the same command *)
ReadWordWriteWord ==
    \E cmd \in WordCommands, sc \in WordScripts, a \in {HAL_OK, HAL_TIMEOUT} :
        LET r == readWord(World(sc \o <<Nak(a)>>), cmd, 0)
            t == IF r.st = HAL_OK THEN writeWord(r.w, cmd, r.data) ELSE [w |-> r.w, st |-> r.st]
        IN  /\ op' = "readWord;writeWord"
            /\ what' = cmd
            /\ script' = sc \o <<Nak(a)>>
            /\ status' = t.st
            /\ log' = t.w.log
            /\ value' = r.data
            /\ value0' = 0
            /\ arg' = r.data
            /\ bytes' = <<>>
            /\ Fixed /\ NoBlock /\ NoStat /\ NoSnapshot

ReadBlock ==
    \E cmd \in BlockCommands, sc \in BlockScripts, b0 \in PriorBlocks :
        LET r == readBlock(World(sc), cmd, b0)
        IN  /\ op' = "readBlock"
            /\ what' = cmd
            /\ script' = sc
            /\ status' = r.st
            /\ log' = r.w.log
            /\ blk' = r.data
            /\ blk0' = b0
            /\ Fixed /\ NoScalar /\ NoArg /\ NoStat /\ NoSnapshot

WriteBlock ==
    \E cmd \in {68}, n \in WriteSizes, a \in HAL_StatusTypeDef :
        LET data == [i \in 1..n |-> i]
            r == writeBlock(World(<<Nak(a)>>), cmd, data)
        IN  /\ op' = "writeBlock"
            /\ what' = cmd
            /\ script' = <<Nak(a)>>
            /\ status' = r.st
            /\ log' = r.w.log
            /\ bytes' = data
            /\ arg' = 0
            /\ Fixed /\ NoScalar /\ NoBlock /\ NoStat /\ NoSnapshot

Write ==
    \E setting \in Settings, v \in WriteValues, a \in HAL_StatusTypeDef :
        LET r == write(World(<<Nak(a)>>), setting, v)
        IN  /\ op' = "write"
            /\ what' = setting
            /\ script' = <<Nak(a)>>
            /\ status' = r.st
            /\ log' = r.w.log
            /\ arg' = v
            /\ bytes' = <<>>
            /\ Fixed /\ NoScalar /\ NoBlock /\ NoStat /\ NoSnapshot

NextTransport ==
    \/ ReadWord
    \/ WriteWord
    \/ ReadWordWriteWord
    \/ ReadBlock
    \/ WriteBlock
    \/ Write

SpecTransport == Init /\ [][NextTransport]_vars

(* no transmit of the trace addresses ManufacturerBlockAccess (0x44) *)
NoBlockAccess == \A i \in 1..Len(Transmits) : Transmits[i].frame[1] # 68

(* C11: write(setting, value) performs exactly one transmission, of        *)
(* [setting code, value low byte, value high byte], no receive and no      *)
(* ManufacturerBlockAccess transaction, whatever the value (no bounds      *)
(* check); write(ChargingCurrent, 2000) transmits [0x14, 0xD0, 0x07].      *)
C11_WriteOneTransmit ==
    op = "write" =>
        /\ Len(Transmits) = 1
        /\ Transmits[1].frame = <<what, arg % 256, arg \div 256>>
        /\ Transmits[1].size = 3
        /\ Receives = <<>>
        /\ NoBlockAccess
        /\ status = script[1].st
        /\ (what = ChargingCurrent /\ arg = 2000 => Transmits[1].frame = <<20, 208, 7>>)

(* write(ChargingCurrent, 2000) went out as [0x14, 0xD0, 0x07] *)
C11_Witness ==
    /\ op = "write" /\ what = ChargingCurrent /\ arg = 2000 /\ status = HAL_OK
    /\ Transmits[1].frame = <<20, 208, 7>>

(* C12: readWord(c) decodes v = b0 | (b1 << 8) from the two bytes the      *)
(* transport returned, and writeWord(c, v) then transmits [c, b0, b1]: the *)
(* data bytes round-trip unchanged, low byte first.                        *)
C12_WordRoundTrip ==
    op = "readWord;writeWord" /\ Len(script) = 3 /\ script[2].st = HAL_OK =>
        LET b0 == script[2].data[1]
            b1 == script[2].data[2]
        IN  /\ value = b0 + 256 * b1
            /\ Len(Transmits) = 2
            /\ Transmits[2].frame = <<what, b0, b1>>

(* bytes D0 07 were read as 2000 and written back as D0 07 *)
C12_Witness ==
    /\ op = "readWord;writeWord" /\ status = HAL_OK
    /\ script[2].data = <<208, 7>> /\ value = 2000
    /\ Transmits[2].frame = <<what, 208, 7>>

(* the block the transport delivered to the last readBlock *)
BlockDelivered == Len(script) = 2 /\ script[1].st = HAL_OK /\ script[2].st = HAL_OK

(* C13: readBlock fails with an error whenever the received length prefix  *)
(* is greater than 32 and then leaves the caller's byte sequence as it     *)
(* was; for a prefix n in 0..32 it returns OK with exactly the n bytes     *)
(* that follow the prefix.                                                 *)
C13_ReadBlockLength ==
    op = "readBlock" /\ BlockDelivered =>
        LET n == script[2].data[1]
        IN  IF n > 32
            THEN status = HAL_ERROR /\ blk = blk0
            ELSE status = HAL_OK /\ blk = SubSeq(script[2].data, 2, n + 1)

(* a length prefix of 33 was refused and the caller's bytes were kept *)
C13_Witness ==
    /\ op = "readBlock" /\ BlockDelivered /\ script[2].data[1] = 33
    /\ status = HAL_ERROR /\ blk0 = <<65, 66>> /\ blk = blk0

(* C14: writeBlock with more than 32 data bytes fails with an error and    *)
(* transmits nothing; with n <= 32 bytes it performs exactly one           *)
(* transmission, of the n + 2 bytes [cmd, n, bytes...].                    *)
C14_WriteBlockSize ==
    op = "writeBlock" =>
        IF Len(bytes) > 32
        THEN status = HAL_ERROR /\ log = <<>>
        ELSE /\ Len(Transmits) = 1
             /\ Transmits[1].frame = <<what, Len(bytes)>> \o bytes
             /\ Transmits[1].size = Len(bytes) + 2
             /\ status = script[1].st

(* 33 bytes were refused before anything reached the bus *)
C14_Witness == op = "writeBlock" /\ Len(bytes) = 33 /\ status = HAL_ERROR /\ log = <<>>

(* C15: each of readWord, writeWord, readBlock and writeBlock ends, after  *)
(* its bus transaction, with the configured inter-command delay            *)
(* (commandDelayMs) before it returns.                                     *)
C15_PrimitiveEndsWithDelay ==
    op \in {"readWord", "writeWord", "readBlock", "writeBlock"} /\ Transmits # <<>> =>
        /\ log[Len(log)].kind = "vTaskDelay"
        /\ log[Len(log)].ms = config_.commandDelayMs

----------------------------------------------------------------------------
(* The public ManufacturerAccess calls readMAC / writeMAC                  *)

(* enum class MACCommand : uint16_t (three of its values) *)
DeviceType == 1
OperationStatus == 84
DeviceReset == 65

MACCommands == {DeviceType, OperationStatus, DeviceReset}
MACValues == {0, 1, 4660}

(* the answers one readMAC(c) consumes; the echo is c or differs from it *)
MACScripts(c) ==
    {<<Nak(s)>> : s \in Fail}
    \cup {<<Ok(<<>>), Nak(s)>> : s \in Fail}
    \cup {<<Ok(<<>>), Ok(<<>>), Nak(s)>> : s \in Fail}
    \cup {<<Ok(<<>>), Ok(<<>>), Ok(BlockFrame(n, e, r))>> :
            n \in {3, 4}, e \in {<<Lo(c), Hi(c)>>, <<Lo(c), 1>>}, r \in ResultSamples}

ReadMAC ==
    \E command \in MACCommands, v0 \in PriorValues :
        \E sc \in MACScripts(command) :
            LET r == readMAC(World(sc), command, v0)
            IN  /\ op' = "readMAC"
                /\ what' = command
                /\ script' = sc
                /\ status' = r.st
                /\ log' = r.w.log
                /\ value' = r.data
                /\ value0' = v0
                /\ Fixed /\ NoArg /\ NoBlock /\ NoStat /\ NoSnapshot

WriteMAC ==
    \E command \in MACCommands, v \in MACValues, a \in HAL_StatusTypeDef, b \in HAL_StatusTypeDef :
        LET r == writeMAC(World(<<Nak(a), Nak(b)>>), command, v)
        IN  /\ op' = "writeMAC"
            /\ what' = command
            /\ script' = <<Nak(a), Nak(b)>>
            /\ status' = r.st
            /\ log' = r.w.log
            /\ arg' = v
            /\ bytes' = <<>>
            /\ Fixed /\ NoScalar /\ NoBlock /\ NoStat /\ NoSnapshot

NextMAC ==
    \/ ReadMAC
    \/ WriteMAC

SpecMAC == Init /\ [][NextMAC]_vars

(* event e is the passthrough transmit of command c to register 0x00 *)
IsCommandTransmit(e, c) ==
    /\ e.kind = "tx"
    /\ e.addr = writeAddress_
    /\ e.frame = <<0, Hi(c), Lo(c)>>

(* C16: writeMAC(command, 0) performs exactly one transmission, the        *)
(* command to register 0x00; writeMAC(command, v), v # 0, transmits the    *)
(* command to register 0x00, then applies the inter-command delay, then    *)
(* transmits the data word v to register 0x00, in that order; if the       *)
(* command transmission fails, the data word is not transmitted and the    *)
(* failure status is returned.                                             *)
C16_WriteMACSequence ==
    op = "writeMAC" =>
        /\ Receives = <<>>
        /\ IsCommandTransmit(log[1], what)
        /\ IF arg = 0 \/ script[1].st # HAL_OK
           THEN Len(log) = 1 /\ status = script[1].st
           ELSE /\ Len(log) = 3
                /\ log[2].kind = "vTaskDelay" /\ log[2].ms = config_.commandDelayMs
                /\ log[3].kind = "tx" /\ log[3].frame = <<0, arg % 256, arg \div 256>>
                /\ status = script[2].st

(* writeMAC(c, 0x1234): command, delay, then [00 34 12] *)
C16_Witness ==
    /\ op = "writeMAC" /\ arg = 4660 /\ status = HAL_OK
    /\ Len(log) = 3 /\ log[2].kind = "vTaskDelay" /\ log[3].frame = <<0, 52, 18>>

(* C17: readMAC(command) issues its command through the unframed           *)
(* passthrough, a write of the command to register 0x00, and does not use  *)
(* the length-framed ManufacturerBlockAccess register 0x44.                *)
C17_ReadMACUsesPassthrough ==
    op = "readMAC" =>
        /\ Transmits[1].frame[1] = 0
        /\ NoBlockAccess

----------------------------------------------------------------------------
(* The typed reads, called with supported and unsupported readings         *)

(* raw BatteryStatus words: 0x16CC, 0x00C0, 0x24C0, 0xFFFF and every single bit *)
StatusWords ==
    {<<204, 22>>, <<192, 0>>, <<192, 36>>, <<255, 255>>}
    \cup {<<2 ^ k, 0>> : k \in 0..7} \cup {<<0, 2 ^ k>> : k \in 0..7}

StatusDirect ==
    {<<Nak(s)>> : s \in Fail}
    \cup {<<Ok(<<>>), Nak(s)>> : s \in Fail}
    \cup {<<Ok(<<>>), Ok(d)>> : d \in StatusWords}

(* answers to a ManufacturerBlockAccess transaction for BatteryStatus *)
StatusFallbacks ==
    {<<Nak(s)>> : s \in Fail}
    \cup {<<Ok(<<>>), Ok(<<>>), Nak(s)>> : s \in Fail}
    \cup {<<Ok(<<>>), Ok(<<>>), Ok(BlockFrame(4, e, r))>> :
            e \in {<<BatteryStatus, 0>>, <<BatteryStatus, 1>>}, r \in {<<192, 0>>, <<204, 22>>}}

(* after a failed or sentinel direct read the transport has answers for a  *)
(* fallback transaction ready, whether or not the driver asks for them     *)
StatusScripts ==
    {d \in StatusDirect : ~NeedsFallback(d)}
    \cup {d \o f : d \in {x \in StatusDirect : NeedsFallback(x)}, f \in StatusFallbacks}

PriorStatus == {NoStatus, DecodeStatus(192)}

ScalarKinds == {"read_u16", "read_i16", "read_u8"}
NonScalarReadings == {AllBatteryData, ManufacturerName, DeviceName}

ScalarScripts(reg) ==
    {<<Ok(<<>>), Ok(<<16, 39>>)>>,
     <<Nak(HAL_TIMEOUT), Nak(HAL_BUSY)>>,
     <<Ok(<<>>), Ok(<<204, 22>>), Ok(<<>>), Ok(<<>>), Ok(BlockFrame(4, <<reg, 0>>, <<16, 39>>))>>}

StringReadings == {ManufacturerName, DeviceName, Voltage, AllBatteryData}

StringScripts ==
    {<<Nak(s)>> : s \in Fail}
    \cup {<<Ok(<<>>), Nak(s)>> : s \in Fail}
    \cup {<<Ok(<<>>), Ok(b)>> :
            b \in {<<0>>, <<2, 204, 22>>, <<3, 66, 81, 0>>, <<3, 66, 0, 0>>, <<33, 66, 81>>}}

CompositeReadings == {AllBatteryData, Voltage, BatteryStatus}
CompositeScripts ==
    {SnapshotScript(1, {}, "echo", "direct"), SnapshotScript(1, {3}, "sentinelBusy", "direct")}

ReadStatus ==
    \E reading \in {BatteryStatus, Voltage}, sc \in StatusScripts, s0 \in PriorStatus :
        LET r == read_Status(World(sc), reading, s0)
        IN  /\ op' = "read_Status"
            /\ what' = reading
            /\ script' = sc
            /\ status' = r.st
            /\ log' = r.w.log
            /\ stat' = r.data
            /\ stat0' = s0
            /\ Fixed /\ NoScalar /\ NoArg /\ NoBlock /\ NoSnapshot

ReadScalar ==
    \E kind \in ScalarKinds, reading \in NonScalarReadings, v0 \in PriorValues :
        \E sc \in ScalarScripts(reading) :
            LET r == CASE kind = "read_u16" -> read_u16(World(sc), reading, v0)
                       [] kind = "read_i16" -> read_i16(World(sc), reading, v0)
                       [] kind = "read_u8"  -> read_u8(World(sc), reading, v0)
            IN  /\ op' = kind
                /\ what' = reading
                /\ script' = sc
                /\ status' = r.st
                /\ log' = r.w.log
                /\ value' = r.data
                /\ value0' = v0
                /\ Fixed /\ NoArg /\ NoBlock /\ NoStat /\ NoSnapshot

ReadString ==
    \E reading \in StringReadings, sc \in StringScripts, b0 \in PriorBlocks :
        LET r == read_string(World(sc), reading, b0)
        IN  /\ op' = "read_string"
            /\ what' = reading
            /\ script' = sc
            /\ status' = r.st
            /\ log' = r.w.log
            /\ blk' = r.data
            /\ blk0' = b0
            /\ Fixed /\ NoScalar /\ NoArg /\ NoStat /\ NoSnapshot

ReadBatteryData ==
    \E reading \in CompositeReadings, sc \in CompositeScripts, d0 \in PriorSnapshots :
        LET r == read_BatteryData(World(sc), reading, d0)
        IN  /\ op' = "read_BatteryData"
            /\ what' = reading
            /\ script' = sc
            /\ status' = r.st
            /\ log' = r.w.log
            /\ bdata' = r.data
            /\ bdata0' = d0
            /\ fstat' = r.fs
            /\ Fixed /\ NoScalar /\ NoArg /\ NoBlock /\ NoStat

NextTyped ==
    \/ ReadStatus
    \/ ReadScalar
    \/ ReadString
    \/ ReadBatteryData

SpecTyped == Init /\ [][NextTyped]_vars

(* C18: read(BatteryStatus, Status): a transport failure of the direct     *)
(* readWord of register 0x16 triggers the ManufacturerBlockAccess fallback *)
(* exactly as a returned 0x16CC does; the Status read takes the same route *)
(* (same bus transactions, same status) as read(Reading, uint16).          *)
C18_StatusFailureFallsBack ==
    op = "read_Status" /\ what = BatteryStatus =>
        /\ DirectFailed => FallbackWriteAt(2, BatteryStatus)
        /\ LET u == read_u16(World(script), BatteryStatus, 0)
           IN  log = u.w.log /\ status = u.st

(* the block read of the fallback of the last read(Reading, uint16) failed *)
(* in the transport: its command transmit or its 33-byte receive           *)
BlockReadFailed ==
    /\ Len(script) >= DirectLen + 2
    /\ script[DirectLen + 1].st = HAL_OK
    /\ script[Len(script)].st # HAL_OK

(* C19: when the block read of the fallback fails at the transport level   *)
(* with status S (error, busy or timeout), the typed read that triggered   *)
(* the fallback returns that same S.                                       *)
C19_BlockReadStatusPropagates ==
    op = "read_u16" /\ BlockReadFailed => status = script[Len(script)].st

(* the last call was handed a reading its value type does not support *)
Unsupported ==
    \/ op \in ScalarKinds /\ what \in NonScalarReadings
    \/ op = "read_string" /\ what \notin {ManufacturerName, DeviceName}
    \/ op = "read_Status" /\ what # BatteryStatus
    \/ op = "read_BatteryData" /\ what # AllBatteryData

(* C20: every typed read called with an unsupported reading / value-type   *)
(* combination fails with an error and performs no bus transaction.        *)
C20_UnsupportedRejected == Unsupported => status = HAL_ERROR /\ log = <<>>

----------------------------------------------------------------------------
(* The signed 16-bit and the 8-bit read of a scalar register                *)

NarrowKinds == {"read_i16", "read_u8"}
NarrowReadings == {Current, StateOfCharge}
PriorNarrow == {0, 75}

(* raw words: 0xFC18 (-1000 as int16), 0x014B (low byte 75), 0x16CC *)
NarrowWords == {<<24, 252>>, <<75, 1>>, <<204, 22>>}

NarrowDirect ==
    {<<Nak(s)>> : s \in Fail}
    \cup {<<Ok(<<>>), Nak(s)>> : s \in Fail}
    \cup {<<Ok(<<>>), Ok(d)>> : d \in NarrowWords}

NarrowFallbacks(reg) ==
    {<<Nak(s)>> : s \in Fail}
    \cup {<<Ok(<<>>), Ok(<<>>), Nak(HAL_TIMEOUT)>>}
    \cup {<<Ok(<<>>), Ok(<<>>), Ok(BlockFrame(4, <<reg, 0>>, r))>> : r \in {<<24, 252>>, <<204, 22>>}}
    \cup {<<Ok(<<>>), Ok(<<>>), Ok(BlockFrame(4, <<reg, 1>>, <<24, 252>>))>>,
          <<Ok(<<>>), Ok(<<>>), Ok(BlockFrame(3, <<reg, 0>>, <<24, 252>>))>>}

NarrowScripts(reg) ==
    {d \in NarrowDirect : ~NeedsFallback(d)}
    \cup {d \o f : d \in {x \in NarrowDirect : NeedsFallback(x)}, f \in NarrowFallbacks(reg)}

ReadNarrow ==
    \E kind \in NarrowKinds, reading \in NarrowReadings, v0 \in PriorNarrow :
        \E sc \in NarrowScripts(reading) :
            LET r == IF kind = "read_i16" THEN read_i16(World(sc), reading, v0)
                     ELSE read_u8(World(sc), reading, v0)
            IN  /\ op' = kind
                /\ what' = reading
                /\ script' = sc
                /\ status' = r.st
                /\ log' = r.w.log
                /\ value' = r.data
                /\ value0' = v0
                /\ Fixed /\ NoArg /\ NoBlock /\ NoStat /\ NoSnapshot

NextViews == ReadNarrow

SpecViews == Init /\ [][NextViews]_vars

(* C21: the int16 and the uint8 read are views of read(Reading, uint16):   *)
(* for the same transport responses they issue the same bus transactions   *)
(* and return the same status; on OK the int16 result is the two's         *)
(* complement reading of the 16-bit value (0xFC18 gives -1000) and the     *)
(* uint8 result its low byte; on failure the caller's output is untouched. *)
C21_NarrowReadsAreViews ==
    op \in NarrowKinds =>
        LET u == read_u16(World(script), what, 0)
        IN  /\ log = u.w.log
            /\ status = u.st
            /\ status # HAL_OK => value = value0
            /\ status = HAL_OK /\ op = "read_i16" =>
                   value = IF u.data >= 32768 THEN u.data - 65536 ELSE u.data
            /\ status = HAL_OK /\ op = "read_u8" => value = u.data % 256
            /\ status = HAL_OK /\ op = "read_i16" /\ u.data = 64536 => value = -1000

(* Current read 0xFC18 through the fallback and returned -1000 *)
C21_Witness ==
    /\ op = "read_i16" /\ what = Current /\ status = HAL_OK
    /\ DirectSentinel /\ BlockFramed /\ BlockResult = 64536
    /\ value = -1000 /\ value0 = 75

----------------------------------------------------------------------------
(* String reads                                                            *)

(* the payload of the block the last string read received *)
StringPayload == SubSeq(script[2].data, 2, script[2].data[1] + 1)

(* C22: a string read of ManufacturerName or DeviceName performs exactly   *)
(* one readBlock of the register (one command transmit, one receive),      *)
(* never a ManufacturerBlockAccess transaction, also when the payload      *)
(* starts with 0xCC 0x16; on OK it yields the block payload with exactly   *)
(* one trailing NUL removed if the payload ends in NUL.                    *)
C22_StringReadIsOneBlockRead ==
    op = "read_string" /\ what \in {ManufacturerName, DeviceName} =>
        /\ Len(Transmits) = 1
        /\ Transmits[1].frame = <<what>>
        /\ Len(Receives) = (IF script[1].st = HAL_OK THEN 1 ELSE 0)
        /\ NoBlockAccess
        /\ status = HAL_OK =>
               LET p == StringPayload
               IN  blk = IF p # <<>> /\ p[Len(p)] = 0 THEN SubSeq(p, 1, Len(p) - 1) ELSE p

----------------------------------------------------------------------------
(* Battery Status decoding                                                 *)

(* the raw value the last Status read obtained for register 0x16 *)
RawStatus == IF DirectSentinel THEN BlockResult ELSE DirectWord

(* bit m of r *)
Flag(r, m) == (r \div m) % 2 = 1

(* r with bits 0x2000 and 0x0400 cleared *)
Significant(r) ==
    r - (IF Flag(r, 8192) THEN 8192 ELSE 0) - (IF Flag(r, 1024) THEN 1024 ELSE 0)

(* C23: the decoded Battery Status is a function of the raw 16-bit value r *)
(* obtained for register 0x16: overCharged = bit 0x8000, terminateCharge = *)
(* 0x4000, overTemp = 0x1000, terminateDischarge = 0x0800,                 *)
(* remainingCapacity = 0x0200, remainingTime = 0x0100, initialized =       *)
(* 0x0080, discharging = 0x0040, fullyCharged = 0x0020, fullyDischarged =  *)
(* 0x0010, errorCode = r & 0x000F; bits 0x2000 and 0x0400 influence no     *)
(* field; a failed Status read modifies no field of the output.            *)
C23_StatusDecoding ==
    op = "read_Status" /\ what = BatteryStatus =>
        IF status = HAL_OK
        THEN LET q == Significant(RawStatus)
             IN  stat = [overChargedAlarm        |-> Flag(q, 32768),
                         terminateChargeAlarm    |-> Flag(q, 16384),
                         overTempAlarm           |-> Flag(q, 4096),
                         terminateDischargeAlarm |-> Flag(q, 2048),
                         remainingCapacityAlarm  |-> Flag(q, 512),
                         remainingTimeAlarm      |-> Flag(q, 256),
                         initialized             |-> Flag(q, 128),
                         discharging             |-> Flag(q, 64),
                         fullyCharged            |-> Flag(q, 32),
                         fullyDischarged         |-> Flag(q, 16),
                         errorCode               |-> q % 16]
        ELSE stat = stat0

(* raw 0x24C0: initialized and discharging, nothing from bits 0x2000 / 0x0400 *)
C23_Witness ==
    /\ op = "read_Status" /\ what = BatteryStatus /\ status = HAL_OK
    /\ ~DirectFailed /\ RawStatus = 9408
    /\ stat.initialized /\ stat.discharging /\ ~stat.overTempAlarm
    /\ ~stat.terminateDischargeAlarm /\ stat.errorCode = 0

----------------------------------------------------------------------------
(* Call sequences: a driver constructed for any of the sampled 7-bit       *)
(* addresses, then any sequence of its public operations                   *)

AddressSamples == {11, 127}

InitAny ==
    /\ config_ \in {[deviceAddress |-> a, commandDelayMs |-> defaultConfig.commandDelayMs] :
                        a \in AddressSamples}
    /\ writeAddress_ = WriteAddressOf(config_)
    /\ readAddress_ = ReadAddressOf(config_)
    /\ op = "none"
    /\ what = 0
    /\ script = <<>>
    /\ status = HAL_OK
    /\ log = <<>>
    /\ value = 0
    /\ value0 = 0
    /\ bdata = NoData
    /\ bdata0 = NoData
    /\ fstat = <<>>
    /\ arg = 0
    /\ bytes = <<>>
    /\ blk = <<>>
    /\ blk0 = <<>>
    /\ stat = NoStatus
    /\ stat0 = NoStatus
    /\ celsius = NoFloat
    /\ task = [t \in Tasks |-> Idle]
    /\ pointer = 0
    /\ telemetry = NoTelemetry
    /\ telemetry0 = NoTelemetry

(* the three recovery transmits: all with the same outcome, or the second lost *)
CallRecoveryScripts ==
    {<<Nak(a), Nak(a), Nak(a)>> : a \in HAL_StatusTypeDef}
    \cup {<<Nak(HAL_OK), Nak(HAL_TIMEOUT), Nak(HAL_OK)>>}

CallInitScripts ==
    {d \in DirectScripts : d # <<Ok(<<>>), Ok(<<204, 22>>)>>}
    \cup {<<Ok(<<>>), Ok(<<204, 22>>)>> \o m \o d : m \in CallRecoveryScripts, d \in DirectScripts}

(* what every call records *)
Returned(o, rd, sc, r) ==
    /\ op' = o
    /\ what' = rd
    /\ script' = sc
    /\ status' = r.st
    /\ log' = r.w.log
    /\ Fixed

CallInit ==
    \E sc \in CallInitScripts :
        /\ Returned("init", 0, sc, init(World(sc)))
        /\ NoScalar /\ NoArg /\ NoBlock /\ NoStat /\ NoSnapshot

CallRead ==
    \E sc \in ReadScripts :
        LET r == read_u16(World(sc), Voltage, 0)
        IN  /\ Returned("read_u16", Voltage, sc, r)
            /\ value' = r.data /\ value0' = 0
            /\ NoArg /\ NoBlock /\ NoStat /\ NoSnapshot

CallReadStatus ==
    \E sc \in StatusScripts :
        LET r == read_Status(World(sc), BatteryStatus, NoStatus)
        IN  /\ Returned("read_Status", BatteryStatus, sc, r)
            /\ stat' = r.data /\ stat0' = NoStatus
            /\ NoScalar /\ NoArg /\ NoBlock /\ NoSnapshot

CallReadString ==
    \E sc \in StringScripts :
        LET r == read_string(World(sc), ManufacturerName, <<>>)
        IN  /\ Returned("read_string", ManufacturerName, sc, r)
            /\ blk' = r.data /\ blk0' = <<>>
            /\ NoScalar /\ NoArg /\ NoStat /\ NoSnapshot

CallReadBatteryData ==
    \E sc \in CompositeScripts :
        LET r == read_BatteryData(World(sc), AllBatteryData, NoData)
        IN  /\ Returned("read_BatteryData", AllBatteryData, sc, r)
            /\ bdata' = r.data /\ bdata0' = NoData /\ fstat' = r.fs
            /\ NoScalar /\ NoArg /\ NoBlock /\ NoStat

CallWrite ==
    \E a \in HAL_StatusTypeDef :
        /\ Returned("write", ChargingCurrent, <<Nak(a)>>,
                    write(World(<<Nak(a)>>), ChargingCurrent, 2000))
        /\ arg' = 2000 /\ bytes' = <<>>
        /\ NoScalar /\ NoBlock /\ NoStat /\ NoSnapshot

CallReadMAC ==
    \E sc \in MACScripts(DeviceType) :
        LET r == readMAC(World(sc), DeviceType, 0)
        IN  /\ Returned("readMAC", DeviceType, sc, r)
            /\ value' = r.data /\ value0' = 0
            /\ NoArg /\ NoBlock /\ NoStat /\ NoSnapshot

CallWriteMAC ==
    \E v \in {0, 4660}, a \in {HAL_OK, HAL_TIMEOUT}, b \in {HAL_OK, HAL_TIMEOUT} :
        /\ Returned("writeMAC", DeviceReset, <<Nak(a), Nak(b)>>,
                    writeMAC(World(<<Nak(a), Nak(b)>>), DeviceReset, v))
        /\ arg' = v /\ bytes' = <<>>
        /\ NoScalar /\ NoBlock /\ NoStat /\ NoSnapshot

CallReset ==
    \E a \in HAL_StatusTypeDef :
        /\ Returned("reset", 0, <<Nak(a)>>, reset(World(<<Nak(a)>>)))
        /\ NoScalar /\ NoArg /\ NoBlock /\ NoStat /\ NoSnapshot

NextCalls ==
    \/ CallInit
    \/ CallRead
    \/ CallReadStatus
    \/ CallReadString
    \/ CallReadBatteryData
    \/ CallWrite
    \/ CallReadMAC
    \/ CallWriteMAC
    \/ CallReset

SpecCalls == InitAny /\ [][NextCalls]_vars

(* every transfer of the last call used the addresses derived from a *)
AddressesDerived ==
    /\ writeAddress_ = 2 * config_.deviceAddress
    /\ readAddress_ = 2 * config_.deviceAddress + 1
    /\ \A i \in 1..Len(log) :
           /\ log[i].kind = "tx" => log[i].addr = 2 * config_.deviceAddress
           /\ log[i].kind = "rx" => log[i].addr = 2 * config_.deviceAddress + 1

(* C24: for a driver constructed with 7-bit device address a, in every     *)
(* reachable state and after any sequence of operations every transmit     *)
(* uses bus address a << 1 and every receive (a << 1) | 1 (0x16 and 0x17   *)
(* for the default 0x0B), and no operation changes the configuration or    *)
(* the derived addresses.                                                  *)
C24_AddressesFixed ==
    /\ [](AddressesDerived /\ (config_.deviceAddress = 11 =>
                                   writeAddress_ = 22 /\ readAddress_ = 23))
    /\ [][config_' = config_ /\ writeAddress_' = writeAddress_
            /\ readAddress_' = readAddress_]_vars

(* a composite read on the driver at 0x7F: transmits to 0xFE, receives from 0xFF *)
C24_Witness ==
    /\ op = "read_BatteryData" /\ config_.deviceAddress = 127
    /\ Len(Transmits) >= 8 /\ Transmits[Len(Transmits)].addr = 254
    /\ Len(Receives) >= 8 /\ Receives[Len(Receives)].addr = 255

(* how many events of the trace satisfy P *)
Count(P(_)) == Len(SelectSeq(log, P))

(* C27: fallback and recovery are attempted once per call and nothing is   *)
(* retried: one read(Reading, uint16) performs at most one direct          *)
(* readWord, one block write to 0x44 and one block read from 0x44 (at most *)
(* 3 transmits and 2 receives); one init() performs at most 2 BatteryMode  *)
(* probes and at most 3 recovery commands.                                 *)
C27_NothingRetried ==
    /\ op = "read_u16" =>
        /\ Len(Transmits) <= 3
        /\ Len(Receives) <= 2
        /\ Count(LAMBDA e : e.kind = "tx" /\ e.call = <<"readWord", what>>) <= 1
        /\ Count(LAMBDA e : e.kind = "tx" /\ e.call = <<"writeBlock", 68>>) <= 1
        /\ Count(LAMBDA e : e.kind = "tx" /\ e.call = <<"readBlock", 68>>) <= 1
    /\ op = "init" =>
        /\ Count(LAMBDA e : e.kind = "tx" /\ e.call = <<"readWord", 3>>) <= 2
        /\ Count(LAMBDA e : e.kind = "tx" /\ e.call[1] = "manufacturerCommand") <= 3

(* a read whose fallback was refused (echo mismatch) stopped after 3 + 2 transfers *)
C27_Witness ==
    /\ op = "read_u16" /\ status = HAL_ERROR
    /\ BlockFramed /\ BlockEcho # what
    /\ Len(Transmits) = 3 /\ Len(Receives) = 2

----------------------------------------------------------------------------
(* C28: when init()'s first BatteryMode probe succeeds with a value other  *)
(* than 0x16CC, init performs exactly one command transmit and exactly one *)
(* receive in total and returns OK.                                        *)
C28_LiveProbeIsOneRead ==
    op = "init" /\ ~DirectFailed /\ DirectWord # Sentinel =>
        /\ Len(Transmits) = 1
        /\ Len(Receives) = 1
        /\ status = HAL_OK

(* the probe returned 0x2710, neither the normal mode nor the sentinel *)
C28_Witness ==
    /\ op = "init" /\ ~DirectFailed /\ DirectWord = 10000
    /\ Len(Transmits) = 1 /\ Len(Receives) = 1 /\ status = HAL_OK

----------------------------------------------------------------------------
(* SMBus Packet Error Code: CRC-8, polynomial x^8 + x^2 + x + 1            *)

RECURSIVE Xor(_, _)
Xor(a, b) ==
    IF a = 0 THEN b
    ELSE IF b = 0 THEN a
    ELSE (((a % 2) + (b % 2)) % 2) + 2 * Xor(a \div 2, b \div 2)

RECURSIVE Crc8Shift(_, _)
Crc8Shift(c, n) ==
    IF n = 0 THEN c
    ELSE Crc8Shift(IF c >= 128 THEN Xor((c * 2) % 256, 7) ELSE c * 2, n - 1)

RECURSIVE Crc8(_, _)
Crc8(bs, crc) ==
    IF bs = <<>> THEN crc
    ELSE Crc8(Tail(bs), Crc8Shift(Xor(crc, Head(bs)), 8))

(* C29: word transfers use SMBus Packet Error Checking: writeWord appends  *)
(* a PEC (CRC-8) byte to the frame it transmits, and readWord receives and *)
(* validates a PEC byte, failing when it does not match.                   *)
C29_WordTransfersUsePEC ==
    /\ op = "writeWord" =>
        Transmits[1].frame =
            <<what, arg % 256, arg \div 256,
              Crc8(<<writeAddress_, what, arg % 256, arg \div 256>>, 0)>>
    /\ op = "readWord" /\ Len(Receives) = 1 =>
        /\ Receives[1].size = 3
        /\ status = HAL_OK =>
               /\ Len(script[2].data) = 3
               /\ script[2].data[3] =
                      Crc8(<<writeAddress_, what, readAddress_,
                             script[2].data[1], script[2].data[2]>>, 0)


----------------------------------------------------------------------------
(* temperatureToC: (raw * 0.1f) - 273.15f in IEEE-754 binary32.             *)
(* raw is promoted to int and converted to float exactly; the product and   *)
(* the difference are each rounded to a 24-bit significand, to nearest,     *)
(* ties to even.  All intermediate integers stay below 2^31.                *)

RECURSIVE Pow2(_)
Pow2(n) == IF n = 0 THEN 1 ELSE 2 * Pow2(n - 1)

RECURSIVE BitLength(_)
BitLength(n) == IF n = 0 THEN 0 ELSE 1 + BitLength(n \div 2)

Max(a, b) == IF a >= b THEN a ELSE b

(* q + rem / (2 * half), rounded to nearest, ties to even *)
RoundNearestEven(q, rem, half) ==
    IF rem > half \/ (rem = half /\ q % 2 = 1) THEN q + 1 ELSE q

(* n / 2^d, rounded to nearest, ties to even *)
RoundShift(n, d) ==
    IF d = 0 THEN n
    ELSE RoundNearestEven(n \div Pow2(d), n % Pow2(d), Pow2(d - 1))

(* the literal 0.1f = 0x3DCCCCCD = 13421773 * 2^-27 *)
TenthF == 13421773
(* the literal 273.15f = 0x43889333 = 8950579 * 2^-15 *)
KelvinF == 8950579

(* raw * (mant * 2^-27) as a float: the value m * 2^(k - 27).  The exact    *)
(* product is Ph * 4096 + Pl; k is the number of bits rounding drops.       *)
F32Times(raw, mant) ==
    LET A  == raw * (mant % 4096)
        B  == raw * (mant \div 4096)
        Ph == B + (A \div 4096)
        Pl == A % 4096
        k  == Max(0, BitLength(Ph) - 12)
    IN  [k |-> k,
         m |-> IF k = 0 THEN Ph * 4096 + Pl
               ELSE IF k <= 12
                    THEN RoundNearestEven(Ph * Pow2(12 - k) + (Pl \div Pow2(k)),
                                          Pl % Pow2(k), Pow2(k - 1))
                    ELSE RoundNearestEven(Ph \div Pow2(k - 12),
                                          (Ph % Pow2(k - 12)) * 4096 + Pl,
                                          Pow2(k - 1))]

(* x - (kel * 2^-15) as a float, for x = m * 2^(k - 27) from F32Times.      *)
(* k >= 12: x is a multiple of 2^-15 and the difference is an integer of    *)
(* that unit.  k < 12: x < 256 < kel * 2^-15, the difference is negative    *)
(* and is Dh * 4096 + Dl in units of 2^-27.                                 *)
F32Minus(x, kel) ==
    IF x.k >= 12
    THEN LET D  == x.m * Pow2(x.k - 12) - kel
             a  == IF D < 0 THEN 0 - D ELSE D
             d  == Max(0, BitLength(a) - 24)
         IN  [neg |-> D < 0, m |-> RoundShift(a, d), e |-> d - 15]
    ELSE LET s  == 12 - x.k
             xh == x.m \div Pow2(s)
             xl == (x.m % Pow2(s)) * Pow2(x.k)
             Dh == kel - xh - (IF xl > 0 THEN 1 ELSE 0)
             Dl == (4096 - xl) % 4096
             d  == BitLength(Dh) - 12
         IN  [neg |-> TRUE,
              m |-> RoundNearestEven(Dh * Pow2(12 - d) + (Dl \div Pow2(d)),
                                     Dl % Pow2(d), Pow2(d - 1)),
              e |-> d - 27]

(* mutant: the offset is 273.0f = 8945664 * 2^-15 *)
temperatureToC_wholeKelvin(raw) == F32Minus(F32Times(raw, TenthF), 8945664)

temperatureToC(raw) == F32Minus(F32Times(raw, TenthF), KelvinF)

(* the 16-bit raw values that are converted: a grid over the whole range,   *)
(* the smallest values, the documented examples and the range's ends        *)
RawSamples ==
    {r \in 0..65535 : r % 109 = 0} \cup (0..20)
        \cup {2632, 2731, 2732, 2980, 2982, 32767, 32768, 65535}

TemperatureToC ==
    \E raw \in RawSamples :
        /\ op' = "temperatureToC"
        /\ what' = 0
        /\ script' = <<>>
        /\ status' = HAL_OK
        /\ log' = <<>>
        /\ arg' = raw
        /\ bytes' = <<>>
        /\ celsius' = temperatureToC(raw)
        /\ UNCHANGED <<config_, writeAddress_, readAddress_, task, pointer,
                       telemetry, telemetry0>>
        /\ NoScalar /\ NoBlock /\ NoStat /\ NoSnapshot

NextConvert == TemperatureToC

SpecConvert == Init /\ [][NextConvert]_vars

(* a float in hundredths, rounded to the nearest integer *)
Hundredths(f) ==
    LET q == IF f.e >= 0 THEN 100 * f.m * Pow2(f.e)
             ELSE (100 * f.m + Pow2((0 - f.e) - 1)) \div Pow2(0 - f.e)
    IN  IF f.neg THEN 0 - q ELSE q

Converted == op = "temperatureToC"

----------------------------------------------------------------------------
(* Two tasks inside readWord on the same driver and bus.  A call is the     *)
(* steps of readWord: the command transmit, the 10 ms delay, the receive    *)
(* and the return; steps of different tasks interleave freely, as the       *)
(* driver takes no lock.  The device answers a receive with the word of     *)
(* the register the last acknowledged command byte addressed.               *)
(* task[t].other is history: the command another task transmitted last     *)
(* since t's own transmit, 0 when there was none.                           *)

TaskCommands == {Voltage, Current}
DeviceWord(c) == IF c = Voltage THEN 12000 ELSE IF c = Current THEN 1500 ELSE 0
BusOutcomes == {HAL_OK, HAL_TIMEOUT}

InCall(t) == task[t].pc \in {"delay", "receive"}

NoDriverCall ==
    UNCHANGED <<config_, writeAddress_, readAddress_, op, what, script, status, log,
                value, value0, bdata, bdata0, fstat, arg, bytes, blk, blk0,
                stat, stat0, celsius, telemetry, telemetry0>>

TaskCall(t) ==
    \E cmd \in TaskCommands :
        /\ task[t].pc = "idle"
        /\ task' = [task EXCEPT ![t] = [Idle EXCEPT !.pc = "transmit", !.cmd = cmd]]
        /\ UNCHANGED pointer
        /\ NoDriverCall

(* mutant: the transmit waits until no other task is inside a transaction *)
TaskTransmit_locked(t) ==
    \E a \in BusOutcomes :
        /\ task[t].pc = "transmit"
        /\ \A u \in Tasks \ {t} : ~InCall(u)
        /\ IF a = HAL_OK
           THEN /\ pointer' = task[t].cmd
                /\ task' = [task EXCEPT ![t].pc = "delay"]
           ELSE /\ pointer' = pointer
                /\ task' = [task EXCEPT ![t].pc = "done", ![t].st = a]
        /\ NoDriverCall

TaskTransmit(t) ==
    \E a \in BusOutcomes :
        /\ task[t].pc = "transmit"
        /\ IF a = HAL_OK
           THEN /\ pointer' = task[t].cmd
                /\ task' = [u \in Tasks |->
                              IF u = t THEN [task[u] EXCEPT !.pc = "delay", !.other = 0]
                              ELSE IF InCall(u) THEN [task[u] EXCEPT !.other = task[t].cmd]
                              ELSE task[u]]
           ELSE /\ pointer' = pointer
                /\ task' = [task EXCEPT ![t].pc = "done", ![t].st = a]
        /\ NoDriverCall

TaskDelay(t) ==
    /\ task[t].pc = "delay"
    /\ task' = [task EXCEPT ![t].pc = "receive"]
    /\ UNCHANGED pointer
    /\ NoDriverCall

TaskReceive(t) ==
    \E a \in BusOutcomes :
        /\ task[t].pc = "receive"
        /\ task' = [task EXCEPT ![t] =
                      IF a = HAL_OK
                      THEN [@ EXCEPT !.pc = "done", !.st = HAL_OK, !.data = DeviceWord(pointer)]
                      ELSE [@ EXCEPT !.pc = "done", !.st = a]]
        /\ UNCHANGED pointer
        /\ NoDriverCall

TaskReturn(t) ==
    /\ task[t].pc = "done"
    /\ task' = [task EXCEPT ![t] = Idle]
    /\ UNCHANGED pointer
    /\ NoDriverCall

NextTasks ==
    \E t \in Tasks :
        \/ TaskCall(t)
        \/ TaskTransmit(t)
        \/ TaskDelay(t)
        \/ TaskReceive(t)
        \/ TaskReturn(t)

SpecTasks == Init /\ [][NextTasks]_vars

ReturnedOK(t) == task[t].pc = "done" /\ task[t].st = HAL_OK

(* C26: nothing in the driver serializes two tasks: a task that is about    *)
(* to transmit its command can always do so, also while another task is     *)
(* between its own transmit and receive; and a read that returns OK         *)
(* delivers the word of the register addressed last on the bus, which is    *)
(* the task's own register only if no other task transmitted in between     *)
C26_NotSafeForConcurrentUse ==
    \A t \in Tasks :
        /\ task[t].pc = "transmit" => ENABLED TaskTransmit(t)
        /\ ReturnedOK(t) =>
               task[t].data = DeviceWord(IF task[t].other = 0 THEN task[t].cmd
                                         ELSE task[t].other)

(* task A asked for the voltage, task B transmitted the current command     *)
(* before A's receive, and A returned OK with the current word              *)
C26_Witness ==
    /\ ReturnedOK("A")
    /\ task["A"].cmd = Voltage
    /\ task["A"].other = Current
    /\ task["B"].cmd = Current
    /\ task["A"].data = DeviceWord(Current)
    /\ task["A"].data # DeviceWord(Voltage)


----------------------------------------------------------------------------
(* The composite read as a sequence of field reads separated by the        *)
(* inter-command delay                                                     *)

IsCommandDelay(e) == e.kind = "vTaskDelay"
CommandDelays == SelectSeq(log, IsCommandDelay)

(* the field read that event k of the trace belongs to: one more than the  *)
(* number of inter-command delays before it                                *)
FieldOf(k) == 1 + Len(SelectSeq(SubSeq(log, 1, k), IsCommandDelay))

(* event k is the direct word read's command transmit for field i *)
DirectTransmitOf(k, i) ==
    /\ log[k].kind = "tx"
    /\ log[k].frame = <<Fields[i]>>
    /\ FieldOf(k) = i

(* C31: the composite read issues its field reads in the order Voltage,    *)
(* Current, Temperature, StateOfCharge, RemainingCapacity,                 *)
(* FullChargeCapacity, CycleCount, BatteryStatus: the inter-command delays *)
(* cut the trace into one piece per field read made, piece i holds the     *)
(* direct read of field i and only transfers for field i, so there is      *)
(* exactly one delay between two consecutive field reads (also after a     *)
(* failed CycleCount read) and none after the last one; a call that        *)
(* returns OK has made all eight.                                          *)
C31_FieldOrderAndDelays ==
    op = "read_BatteryData" =>
        /\ Len(fstat) = Len(CommandDelays) + 1
        /\ Len(fstat) <= Len(Fields)
        /\ \A i \in 1..Len(fstat) : \E k \in 1..Len(log) : DirectTransmitOf(k, i)
        /\ \A k \in 1..Len(log) :
               /\ log[k].kind = "tx" =>
                      /\ FieldOf(k) <= Len(Fields)
                      /\ \/ log[k].frame = <<68>>
                         \/ NamedRegister(log[k]) = Fields[FieldOf(k)]
               /\ IsCommandDelay(log[k]) => log[k].ms = config_.commandDelayMs
        /\ log # <<>> /\ ~IsCommandDelay(log[Len(log)])
        /\ status = HAL_OK => Len(fstat) = Len(Fields)
        /\ (Len(fstat) >= 7 /\ fstat[7] # HAL_OK) => Len(CommandDelays) = 7

(* CycleCount failed on both paths, the delay and the BatteryStatus read   *)
(* followed, and nothing came after that read                              *)
C31_Witness ==
    /\ op = "read_BatteryData"
    /\ status = HAL_OK
    /\ fstat[7] = HAL_ERROR
    /\ Len(CommandDelays) = 7
    /\ \E k \in 1..Len(log) : DirectTransmitOf(k, 8)
    /\ log[Len(log)].kind = "rx"


----------------------------------------------------------------------------
(* The steps of one ManufacturerBlockAccess transaction in the bus trace   *)

IsBlockWrite(e) == e.kind = "tx" /\ e.call = <<"writeBlock", 68>>
IsBlockRead(e) == e.call = <<"readBlock", 68>>
IsProcessingWait(e) == e.kind = "HAL_Delay_MS" /\ e.ms = 100

BlockWrites == {k \in 1..Len(log) : IsBlockWrite(log[k])}

(* C32: in a fallback transaction the block write of the command to 0x44   *)
(* comes first, then one wait of 100 ms, then the block read from 0x44; no *)
(* wait and no block read happens without a successful block write before  *)
(* it, and a failed block write ends the call with the write's status.     *)
C32_FallbackStepOrder ==
    op = "read_u16" =>
        /\ Cardinality(BlockWrites) <= 1
        /\ \A k \in BlockWrites :
               /\ log[k].frame = <<68, 2, Lo(what), Hi(what)>>
               /\ IF log[k].st # HAL_OK
                  THEN /\ k = Len(log)
                       /\ status = log[k].st
                  ELSE /\ Len(log) >= k + 2
                       /\ IsProcessingWait(log[k + 1])
                       /\ IsBlockRead(log[k + 2])
                       /\ log[k + 2].kind = "tx"
                       /\ log[k + 2].frame = <<68>>
        /\ \A j \in 1..Len(log) :
               (IsProcessingWait(log[j]) \/ IsBlockRead(log[j]))
                   => \E k \in BlockWrites : k < j /\ log[k].st = HAL_OK
        /\ Cardinality({j \in 1..Len(log) : IsProcessingWait(log[j])}) <= 1

(* sentinel on the direct path, then block write, 100 ms, block read *)
C32_Witness ==
    /\ op = "read_u16"
    /\ DirectSentinel
    /\ Len(log) = 8
    /\ IsBlockWrite(log[4]) /\ log[4].st = HAL_OK
    /\ IsProcessingWait(log[5])
    /\ IsBlockRead(log[6]) /\ log[6].kind = "tx"
    /\ IsBlockRead(log[8]) /\ log[8].kind = "rx" /\ log[8].size = 33
    /\ status = HAL_OK


----------------------------------------------------------------------------
(* Short ManufacturerBlockAccess responses                                 *)

(* the fallback's block read delivered a payload of fewer than 4 bytes *)
BlockShort == BlockReceived /\ Block[1] \in 0..3

(* what the caller's variable holds when the fallback assigned nothing:    *)
(* the word the direct read stored, or else what it held before the call   *)
ValueWithoutFallback == IF DirectFailed THEN value0 ELSE DirectWord

(* C33: a ManufacturerBlockAccess response with a length prefix of 0..3    *)
(* makes the read fail with HAL_ERROR, and the caller's value is not       *)
(* assigned from the response: it holds what it held when the fallback     *)
(* began.                                                                  *)
C33_ShortResponseRejected ==
    (op = "read_u16" /\ BlockShort)
        => /\ status = HAL_ERROR
           /\ value = ValueWithoutFallback

(* a 3-byte response that echoes the command and carries a result byte *)
C33_Witness ==
    /\ op = "read_u16" /\ what = Voltage
    /\ DirectFailed
    /\ BlockShort /\ Block = <<3, 9, 0, 16>>
    /\ status = HAL_ERROR
    /\ value0 = 12000 /\ value = 12000


----------------------------------------------------------------------------
(* The ManufacturerBlockAccess transaction on its own, for 16-bit commands *)
(* with a non-zero high byte, and as the fallback of a register read       *)

(* 0x0009, 0x0006, 0x0100, 0x3672 *)
WideCommands == {9, 6, 256, 13938}

(* the echo in a response: the command, its bytes swapped, or another high *)
(* byte                                                                    *)
EchoesOf(c) == {<<Lo(c), Hi(c)>>, <<Hi(c), Lo(c)>>, <<Lo(c), (Hi(c) + 1) % 256>>}

(* the answers one ManufacturerBlockAccess transaction for c consumes *)
TransactionScripts(c) ==
    {<<Nak(s)>> : s \in Fail}
    \cup {<<Ok(<<>>), Nak(s)>> : s \in Fail}
    \cup {<<Ok(<<>>), Ok(<<>>), Nak(s)>> : s \in Fail}
    \cup {<<Ok(<<>>), Ok(<<>>), Ok(BlockFrame(n, e, r))>> :
            n \in {4, MaxBlockLen}, e \in EchoesOf(c), r \in ResultSamples}

(* direct reads that lead into the fallback *)
FailedDirect == {<<Nak(HAL_TIMEOUT)>>, <<Ok(<<>>), Nak(HAL_ERROR)>>, <<Ok(<<>>), Ok(<<204, 22>>)>>}

ManufacturerBlockAccessRead ==
    \E command \in WideCommands, v0 \in PriorValues :
        \E sc \in TransactionScripts(command) :
            LET r == manufacturerBlockAccessRead(World(sc), command, v0)
            IN  /\ op' = "manufacturerBlockAccessRead"
                /\ what' = command
                /\ script' = sc
                /\ status' = r.st
                /\ log' = r.w.log
                /\ value' = r.data
                /\ value0' = v0
                /\ Fixed /\ NoArg /\ NoBlock /\ NoStat /\ NoSnapshot

FallbackRead ==
    \E reading \in Readings16, v0 \in PriorValues, d \in FailedDirect :
        \E f \in TransactionScripts(reading) :
            LET r == read_u16(World(d \o f), reading, v0)
            IN  /\ op' = "read_u16"
                /\ what' = reading
                /\ script' = d \o f
                /\ status' = r.st
                /\ log' = r.w.log
                /\ value' = r.data
                /\ value0' = v0
                /\ Fixed /\ NoArg /\ NoBlock /\ NoStat /\ NoSnapshot

NextFallback ==
    \/ ManufacturerBlockAccessRead
    \/ FallbackRead

SpecFallback == Init /\ [][NextFallback]_vars

(* the block response of the transaction: the answer to the last receive,  *)
(* when that receive was the 33-byte block receive and succeeded           *)
ResponseReceived ==
    /\ log # <<>>
    /\ log[Len(log)].kind = "rx"
    /\ log[Len(log)].size = 33
    /\ log[Len(log)].st = HAL_OK
Response == script[Len(Transmits) + Len(Receives)].data

(* C34: the fallback's block write for the 16-bit command c transmits      *)
(* exactly [0x44, 0x02, c & 0xFF, c >> 8]; in a register read c is the     *)
(* register code with a zero high byte; and a framed response is accepted  *)
(* exactly when its first two payload bytes are c & 0xFF and c >> 8.       *)
C34_BlockWriteFrameAndEcho ==
    op \in {"manufacturerBlockAccessRead", "read_u16"} =>
        /\ \A k \in BlockWrites :
               /\ log[k].frame = <<68, 2, what % 256, what \div 256>>
               /\ log[k].size = 4
               /\ log[k].addr = writeAddress_
               /\ op = "read_u16" => log[k].frame = <<68, 2, what, 0>>
        /\ (ResponseReceived /\ Response[1] \in 4..SMBUS_MAX_BLOCK_SIZE)
               => (status = HAL_OK
                     <=> (Response[2] = what % 256 /\ Response[3] = what \div 256))

(* command 0x3672 goes out as 44 02 72 36 and the response echoes 72 36 *)
C34_Witness ==
    /\ op = "manufacturerBlockAccessRead"
    /\ what = 13938
    /\ log[1].frame = <<68, 2, 114, 54>>
    /\ ResponseReceived
    /\ Response = <<4, 114, 54, 16, 39>>
    /\ status = HAL_OK /\ value = 10000


----------------------------------------------------------------------------
(* Operations without a fallback path                                      *)

NoFallbackOps == {"write", "read_string", "writeMAC", "reset"}
IsTransfer(e) == e.kind \in {"tx", "rx"}

(* C35: write, the string read, writeMAC and reset stop at their first     *)
(* failing transport call (it is the last event of the trace) and return   *)
(* its status; reset() makes exactly one transfer, the passthrough         *)
(* transmit of command 0x0041, and returns OK iff that transmit succeeded. *)
C35_FailuresPropagate ==
    op \in NoFallbackOps =>
        /\ \A k \in 1..Len(log) :
               (IsTransfer(log[k]) /\ log[k].st # HAL_OK)
                   => /\ k = Len(log)
                      /\ status = log[k].st
        /\ op = "reset" =>
               /\ Len(Transmits) = 1
               /\ Len(Receives) = 0
               /\ IsCommandTransmit(Transmits[1], 65)
               /\ status = HAL_OK <=> Transmits[1].st = HAL_OK

(* the reset command was not acknowledged: one transmit, no delay, BUSY *)
C35_Witness ==
    /\ op = "reset"
    /\ Len(log) = 1
    /\ log[1].frame = <<0, 0, 65>>
    /\ log[1].st = HAL_BUSY
    /\ status = HAL_BUSY


----------------------------------------------------------------------------
(* init(): recovery commands that are not acknowledged                     *)

(* the reset command or one of the unseal keys failed at the transport *)
RecoveryCommandFailed == \E i \in 3..5 : script[i].st # HAL_OK

----------------------------------------------------------------------------
(* Where a returned 0x16CC comes from                                      *)

(* the call ran a complete fallback transaction and its response was       *)
(* framed and echoed the register                                          *)
EchoVerified ==
    /\ \E k \in BlockWrites : log[k].st = HAL_OK /\ log[k].frame = <<68, 2, what, 0>>
    /\ ResponseReceived
    /\ Response[1] \in 4..SMBUS_MAX_BLOCK_SIZE
    /\ Word(Response[2], Response[3]) = what
ResponseResult == Word(Response[4], Response[5])

(* the call made the direct word read and nothing else *)
DirectOnly == Len(Transmits) = 1 /\ Len(Receives) = 1

(* C37: read(Reading, uint16) returns OK with 0x16CC only as the result     *)
(* word of an echo-verified ManufacturerBlockAccess response; a call that  *)
(* returns OK from the direct path alone never delivers 0x16CC.            *)
C37_SentinelOnlyFromFallback ==
    (op = "read_u16" /\ status = HAL_OK) =>
        /\ value = Sentinel => (EchoVerified /\ ResponseResult = Sentinel)
        /\ DirectOnly => (value # Sentinel /\ value = DirectWord)

(* the direct read gave 0x16CC and so did the verified fallback response *)
C37_Witness ==
    /\ op = "read_u16" /\ what = Voltage
    /\ DirectSentinel
    /\ EchoVerified
    /\ Response = <<4, 9, 0, 204, 22>>
    /\ status = HAL_OK /\ value = Sentinel


----------------------------------------------------------------------------
(* The caller's output after a failed or an empty read                     *)

(* C38: when read(Reading, uint16) returns a failure status, the caller's   *)
(* value is what it was before the call, whether the direct path failed at *)
(* the transport or returned the sentinel before the fallback failed.      *)
C38_FailureLeavesValue ==
    (op = "read_u16" /\ status # HAL_OK) => value = value0

(* C39: after a string read returns OK the caller's string is the block    *)
(* payload received in that call, less one trailing NUL; for an empty      *)
(* payload it is the empty string, whatever it held before.                *)
C39_StringIsPayload ==
    (op = "read_string" /\ status = HAL_OK)
        => /\ blk = StripNul(StringPayload)
           /\ StringPayload = <<>> => blk = <<>>


----------------------------------------------------------------------------
(* getBatteryTelemetryData (bq40z80.cpp).  The snapshot is read into a     *)
(* local BatteryData, whose indeterminate initial content is the input     *)
(* local0; tick is what HAL_GetTick() returns.  data is the local after    *)
(* the read and fs the statuses of its field reads.                        *)

Filled(data, tick) ==
    [timestamp_ms |-> tick,
     voltage_mV |-> data.voltage,
     current_mA |-> data.current,
     temperature_01K |-> data.temperature,
     state_of_charge |-> data.stateOfCharge,
     remaining_capacity_mAh |-> data.remainingCapacity,
     full_charge_capacity_mAh |-> data.fullChargeCapacity,
     cycle_count |-> data.cycleCount,
     status_flags |->
         [over_charged_alarm |-> data.status.overChargedAlarm,
          terminate_charge_alarm |-> data.status.terminateChargeAlarm,
          over_temp_alarm |-> data.status.overTempAlarm,
          terminate_discharge_alarm |-> data.status.terminateDischargeAlarm,
          remaining_capacity_alarm |-> data.status.remainingCapacityAlarm,
          remaining_time_alarm |-> data.status.remainingTimeAlarm,
          initialized |-> data.status.initialized,
          discharging |-> data.status.discharging],
     status_flags_ext |-> [fully_charged |-> data.status.fullyCharged,
                           fully_discharged |-> data.status.fullyDischarged],
     error_code |-> data.status.errorCode,
     data_quality |-> 255]

(* mutant: the caller's structure is cleared before the snapshot is read *)
getBatteryTelemetryData_clearFirst(w, tel, local0, tick) ==
    Bind(read_BatteryData(w, AllBatteryData, local0), LAMBDA r :
        IF r.st # HAL_OK
        THEN [w |-> r.w, st |-> r.st, telemetry |-> NoTelemetry, data |-> r.data, fs |-> r.fs]
        ELSE [w |-> r.w, st |-> HAL_OK, telemetry |-> Filled(r.data, tick),
              data |-> r.data, fs |-> r.fs])

getBatteryTelemetryData(w, tel, local0, tick) ==
    Bind(read_BatteryData(w, AllBatteryData, local0), LAMBDA r :
        IF r.st # HAL_OK
        THEN [w |-> r.w, st |-> r.st, telemetry |-> tel, data |-> r.data, fs |-> r.fs]
        ELSE [w |-> r.w, st |-> HAL_OK, telemetry |-> Filled(r.data, tick),
              data |-> r.data, fs |-> r.fs])

(* what the caller's structure held before the call *)
PriorTelemetry ==
    [Filled(PriorData, 41) EXCEPT !.data_quality = 15]
PriorTelemetries == {NoTelemetry, PriorTelemetry}
Ticks == {1000}

(* the snapshot scripts of the composite read, two ways of failing a field *)
(* and two ways of reading one                                             *)
TelemetryScripts ==
    {SnapshotScript(1, fs, fk, ok) :
        fs \in FailingSets, fk \in {"sentinelBusy", "echo"}, ok \in {"direct", "mixed"}}

GetBatteryTelemetryData ==
    \E sc \in TelemetryScripts, t0 \in PriorTelemetries, d0 \in PriorSnapshots, tick \in Ticks :
        LET r == getBatteryTelemetryData(World(sc), t0, d0, tick)
        IN  /\ op' = "getBatteryTelemetryData"
            /\ what' = AllBatteryData
            /\ script' = sc
            /\ status' = r.st
            /\ log' = r.w.log
            /\ bdata' = r.data
            /\ bdata0' = d0
            /\ fstat' = r.fs
            /\ telemetry' = r.telemetry
            /\ telemetry0' = t0
            /\ UNCHANGED <<config_, writeAddress_, readAddress_, celsius, task, pointer>>
            /\ NoScalar /\ NoArg /\ NoBlock /\ NoStat

NextTelemetry == GetBatteryTelemetryData

SpecTelemetry == Init /\ [][NextTelemetry]_vars

(* the status the composite read returned, read off its field statuses:    *)
(* OK after eight field reads the last of which succeeded, else the status *)
(* of the field read it stopped at                                         *)
SnapshotStatus ==
    IF Len(fstat) = Len(Fields) /\ fstat[Len(fstat)] = HAL_OK THEN HAL_OK
    ELSE fstat[Len(fstat)]

(* C40: getBatteryTelemetryData returns the status of its composite read;  *)
(* on failure the caller's telemetry structure is what it was before the   *)
(* call; on success every telemetry field equals the snapshot field it is  *)
(* taken from and data_quality is 0xFF, also when the CycleCount read      *)
(* failed and cycleCount was set to 0.                                     *)
C40_TelemetryFollowsSnapshot ==
    op = "getBatteryTelemetryData" =>
        /\ status = SnapshotStatus
        /\ status # HAL_OK => telemetry = telemetry0
        /\ status = HAL_OK =>
               /\ telemetry.voltage_mV = bdata.voltage
               /\ telemetry.current_mA = bdata.current
               /\ telemetry.temperature_01K = bdata.temperature
               /\ telemetry.state_of_charge = bdata.stateOfCharge
               /\ telemetry.remaining_capacity_mAh = bdata.remainingCapacity
               /\ telemetry.full_charge_capacity_mAh = bdata.fullChargeCapacity
               /\ telemetry.cycle_count = bdata.cycleCount
               /\ telemetry.status_flags.over_charged_alarm = bdata.status.overChargedAlarm
               /\ telemetry.status_flags.terminate_charge_alarm
                      = bdata.status.terminateChargeAlarm
               /\ telemetry.status_flags.over_temp_alarm = bdata.status.overTempAlarm
               /\ telemetry.status_flags.terminate_discharge_alarm
                      = bdata.status.terminateDischargeAlarm
               /\ telemetry.status_flags.remaining_capacity_alarm
                      = bdata.status.remainingCapacityAlarm
               /\ telemetry.status_flags.remaining_time_alarm
                      = bdata.status.remainingTimeAlarm
               /\ telemetry.status_flags.initialized = bdata.status.initialized
               /\ telemetry.status_flags.discharging = bdata.status.discharging
               /\ telemetry.status_flags_ext.fully_charged = bdata.status.fullyCharged
               /\ telemetry.status_flags_ext.fully_discharged = bdata.status.fullyDischarged
               /\ telemetry.error_code = bdata.status.errorCode
               /\ telemetry.data_quality = 255
               /\ fstat[7] # HAL_OK => telemetry.cycle_count = 0

(* the CycleCount read failed; the caller's structure held cycle count 7   *)
(* and quality 0x0F and now holds 0 and 0xFF                               *)
C40_Witness ==
    /\ op = "getBatteryTelemetryData"
    /\ status = HAL_OK
    /\ fstat[7] = HAL_BUSY
    /\ telemetry0 = PriorTelemetry
    /\ telemetry.cycle_count = 0
    /\ telemetry.data_quality = 255
    /\ telemetry.voltage_mV = 32777
    /\ telemetry.timestamp_ms = 1000

============================================================================
